---- MODULE Spec2Model ----
(***************************************************************************)
(* A model of the retained tree (RealDom), its change masks (NodeMask,     *)
(* AttributeMask) and the focus navigator (FocusState) of blitz.           *)
(*                                                                         *)
(* The module holds five families of state:                                *)
(*   - the focus navigator: per-node focus levels and the FocusState,      *)
(*   - the focus pass: one node's stored Focus and the view reduce reads,  *)
(*   - the change masks: operands and results of union / overlaps,         *)
(*   - the watched mask of a pass, from its writing to its use,            *)
(*   - the RealDom: tree, operand stack, id mapping, dirty sets, passes.   *)
(* Each family has specifications of its own; the variables of the other   *)
(* families stay at their initial value under them.                        *)
(***************************************************************************)
EXTENDS Integers, Sequences, FiniteSets, TLC

VARIABLES
    \* ---- focus navigator (focus.rs) ----
    level,            \* node -> FocusLevel        (rdom[id].state.focus.level)
    pass_focus,       \* node -> BOOLEAN           (rdom[id].state.focus.pass_focus)
    focused,          \* node -> BOOLEAN           (rdom[id].state.focused)
    last_focused_id,  \* FocusState.last_focused_id (None or a node)
    focus_level,      \* FocusState.focus_level
    focus_iter,       \* FocusState.focus_iter: the node the cursor sits on
    fop,              \* the last focus call: its kind, direction and result
    trail,            \* nodes focused by the forward calls made since construction
    \* ---- focus pass (focus.rs, Focus::reduce) ----
    rfocus,           \* the Focus stored for the node (self of reduce)
    rop,              \* the last reduce call: the view it read and what it gave
    \* ---- change masks (node_ref.rs) ----
    mA, mB, mC,       \* three NodeMask operands
    mres,             \* the results of union on them
    mov,              \* the results of overlaps on them
    watch,            \* a pass's watched mask: as written, built, registered, used
    \* ---- RealDom (real_dom.rs) ----
    dom,              \* the RealDom: its fields as a record
    dop,              \* the last call on the dom: an edit or update_state
    upd,              \* what the last update_state found dirty, ran and changed
    budget,           \* number of edits the dom is still to take
    instances,        \* the template instances loaded: root index and nodes
    created           \* the nodes made since the last update_state that are still there

fvars == <<level, pass_focus, focused, last_focused_id, focus_level, focus_iter, fop, trail>>

mvars == <<mA, mB, mC, mres, mov>>

dvars == <<dom, dop, upd, budget, instances, created>>

rvars == <<rfocus, rop>>

wvars == <<watch>>

vars == <<fvars, mvars, dvars, rvars, wvars>>
\* what a step of one family leaves alone
nonFocus == <<mvars, dvars, rvars, wvars>>
nonMask == <<fvars, dvars, rvars, wvars>>
nonDom == <<fvars, mvars, rvars, wvars>>
nonReduce == <<fvars, mvars, dvars, wvars>>
nonWatch == <<fvars, mvars, dvars, rvars>>

\* Option<T>: None, or Some(x) holding x as its one element
None == <<>>
Some(x) == <<x>>

(***************************************************************************)
(* Bounds                                                                  *)
(***************************************************************************)
\* number of nodes below the root in the focus navigator's tree
NumFocusNodes == 4
\* largest tabindex rank a node carries
MaxRank == 2
\* number of attribute names; the names are 1..NumAttrNames in their sort order
NumAttrNames == 2
\* longest Static list a pass writes down
MaxStaticLen == 2

\* slots of the arena, the root included
MaxNodes == 8
\* largest external id an edit names
MaxElementId == 3
\* number of attribute values and of texts
NumValues == 2
\* largest count m an edit takes off the stack
MaxCount == 2
\* largest height of the stack
MaxStack == 3
\* number of structural edits applied to one dom
MaxEdits == 7
\* number of edits applied to a dom with template instances
MaxTemplateEdits == 4
\* number of edits applied to a dom with listeners
MaxListenEdits == 4
\* number of edits applied to a dom with passes
MaxPassEdits == 4

(***************************************************************************)
(* Focus navigator                                                         *)
(***************************************************************************)
FRoot == 0
FNodes == 0..NumFocusNodes

Unfocusable == [kind |-> "Unfocusable", rank |-> 0]
Focusable == [kind |-> "Focusable", rank |-> 0]
Ordered(r) == [kind |-> "Ordered", rank |-> r]
FocusLevel == {Unfocusable, Focusable} \cup {Ordered(r) : r \in 1..MaxRank}

focusable(l) == l.kind # "Unfocusable"

\* impl PartialOrd for FocusLevel: the nine cases of partial_cmp
partial_cmp(a, b) ==
    CASE a.kind = "Unfocusable" /\ b.kind = "Unfocusable" -> "Equal"
      [] a.kind = "Unfocusable" /\ b.kind = "Focusable" -> "Less"
      [] a.kind = "Unfocusable" /\ b.kind = "Ordered" -> "Less"
      [] a.kind = "Focusable" /\ b.kind = "Unfocusable" -> "Greater"
      [] a.kind = "Focusable" /\ b.kind = "Focusable" -> "Equal"
      [] a.kind = "Focusable" /\ b.kind = "Ordered" -> "Greater"
      [] a.kind = "Ordered" /\ b.kind = "Unfocusable" -> "Greater"
      [] a.kind = "Ordered" /\ b.kind = "Focusable" -> "Less"
      [] a.kind = "Ordered" /\ b.kind = "Ordered" ->
            IF a.rank < b.rank THEN "Less"
            ELSE IF a.rank = b.rank THEN "Equal" ELSE "Greater"

lt(a, b) == partial_cmp(a, b) = "Less"
gt(a, b) == partial_cmp(a, b) = "Greater"
ge(a, b) == partial_cmp(a, b) \in {"Greater", "Equal"}
le(a, b) == partial_cmp(a, b) \in {"Less", "Equal"}

\* PersistantElementIter: a cursor over the depth-first, document-order
\* enumeration of the nodes (here 0, 1, .., NumFocusNodes, the root first).
\* A step that wraps around produces Looped, any other step Progressed.
IterNext(cur) ==
    IF cur = NumFocusNodes THEN [id |-> FRoot, looped |-> TRUE]
    ELSE [id |-> cur + 1, looped |-> FALSE]

IterPrev(cur) ==
    IF cur = FRoot THEN [id |-> NumFocusNodes, looped |-> TRUE]
    ELSE [id |-> cur - 1, looped |-> FALSE]

\* a forward scan that keeps the greatest of the greater levels
ClosestAfter_greatest(fl) ==
    LET cand == {level[n] : n \in {m \in FNodes : gt(level[m], fl)}}
    IN IF cand = {} THEN None
       ELSE Some(CHOOSE l \in cand : \A k \in cand : ~gt(k, l))

\* rdom.traverse_depth_first with the closure of the forward branch: the
\* smallest level greater than the sought one, None when there is none
ClosestAfter(fl) ==
    LET cand == {level[n] : n \in {m \in FNodes : gt(level[m], fl)}}
    IN IF cand = {} THEN None
       ELSE Some(CHOOSE l \in cand : \A k \in cand : ~lt(k, l))

\* the closure of the backward branch: the greatest level less than the sought one
ClosestBefore(fl) ==
    LET cand == {level[n] : n \in {m \in FNodes : lt(level[m], fl)}}
    IN IF cand = {} THEN None
       ELSE Some(CHOOSE l \in cand : \A k \in cand : ~gt(k, l))

\* the sought level after a Looped step
LoopedLevel(forward, fl) ==
    LET closest_level == IF forward THEN ClosestAfter(fl) ELSE ClosestBefore(fl)
    IN IF closest_level # None THEN closest_level[1]
       ELSE IF forward THEN Unfocusable ELSE Focusable

\* the steps one call of progress may take before the model gives up on it
Fuel == (NumFocusNodes + 1) * (MaxRank + 5)

\* the loop of FocusState::progress, from the cursor cur with the marker
\* loop_marker_id and the sought level fl; the result is what the loop leaves:
\* next_focus, the sought level, the cursor, and whether it ended at all
RECURSIVE ProgressLoop(_, _, _, _, _, _)
ProgressLoop(forward, cur, loop_marker_id, fl, starting_focus_level, fuel) ==
    IF fuel = 0
    THEN [next_focus |-> None, focus_level |-> fl, cursor |-> cur, ended |-> FALSE]
    ELSE
    LET new == IF forward THEN IterNext(cur) ELSE IterPrev(cur)
        new_id == new.id
        current_level == level[new_id]
        fl2 == IF new.looped THEN LoopedLevel(forward, fl) ELSE fl
        marker2 == IF new.looped THEN None ELSE loop_marker_id
        marker3 == IF marker2 = None THEN Some(new_id) ELSE marker2
        after_previous_focused ==
            IF forward THEN ge(current_level, fl2) ELSE le(current_level, fl2)
        stop == [next_focus |-> None, focus_level |-> fl2, cursor |-> new_id, ended |-> TRUE]
    IN IF new.looped /\ fl2 = starting_focus_level THEN stop
       ELSE IF marker2 # None /\ new_id = marker2[1] THEN stop
       ELSE IF after_previous_focused /\ focusable(current_level) /\ current_level = fl2
            THEN [next_focus |-> Some(new_id), focus_level |-> fl2, cursor |-> new_id, ended |-> TRUE]
            ELSE ProgressLoop(forward, new_id, marker3, fl2, starting_focus_level, fuel - 1)

\* FocusState::progress up to its loop's result
ProgressResult(forward) ==
    ProgressLoop(forward, focus_iter, last_focused_id, focus_level, focus_level, Fuel)

\* the focus call record of a state in which no call has been made
NoCall == [kind |-> "none", forward |-> FALSE, ret |-> FALSE, blocked |-> FALSE]

\* the record of a call: blocked says that it was made while the focused node
\* had pass_focus = false
CallRecord(kind, forward, ret) ==
    [kind |-> kind, forward |-> forward, ret |-> ret,
     blocked |-> (last_focused_id # None /\ ~pass_focus[last_focused_id[1]])]

VoidTrail == [pure |-> FALSE, seq |-> <<>>]

\* the trail after a call: while nothing but progress(forward = true) has been
\* called, it records what each of these calls focused (None for a call that
\* returned false)
TrailAfter(forward, node) ==
    IF ~trail.pure \/ ~forward \/ Len(trail.seq) > NumFocusNodes THEN VoidTrail
    ELSE [pure |-> TRUE, seq |-> Append(trail.seq, node)]

\* a progress that, having found nothing, leaves the sought level where the
\* first wrap-around put it
ProgressBody_level_left(forward) ==
    LET r == ProgressResult(forward)
    IN /\ r.ended
       /\ focus_level' = IF r.next_focus = None THEN LoopedLevel(forward, focus_level)
                                             ELSE r.focus_level
       /\ focus_iter' = r.cursor
       /\ IF r.next_focus # None
          THEN /\ focused' = [n \in FNodes |->
                     IF last_focused_id # None /\ n = last_focused_id[1]
                     THEN FALSE
                     ELSE IF n = r.next_focus[1] THEN TRUE ELSE focused[n]]
               /\ last_focused_id' = r.next_focus
               /\ fop' = CallRecord("progress", forward, TRUE)
          ELSE /\ UNCHANGED <<focused, last_focused_id>>
               /\ fop' = CallRecord("progress", forward, FALSE)
       /\ trail' = TrailAfter(forward, r.next_focus)
       /\ UNCHANGED <<level, pass_focus>>
       /\ UNCHANGED nonFocus

\* FocusState::progress from its loop on, for a loop that ends: the loop's
\* result, then the focus moved to next_focus (lines 123-231)
ProgressBody(forward) ==
    LET r == ProgressResult(forward)
    IN /\ r.ended
       /\ focus_level' = r.focus_level
       /\ focus_iter' = r.cursor
       /\ IF r.next_focus # None
          THEN /\ focused' = [n \in FNodes |->
                     IF last_focused_id # None /\ n = last_focused_id[1]
                     THEN FALSE
                     ELSE IF n = r.next_focus[1] THEN TRUE ELSE focused[n]]
               /\ last_focused_id' = r.next_focus
               /\ fop' = CallRecord("progress", forward, TRUE)
          ELSE /\ UNCHANGED <<focused, last_focused_id>>
               /\ fop' = CallRecord("progress", forward, FALSE)
       /\ trail' = TrailAfter(forward, r.next_focus)
       /\ UNCHANGED <<level, pass_focus>>
       /\ UNCHANGED nonFocus

\* a progress without the early return
ProgressBlocked_runs(forward) ==
    /\ last_focused_id # None
    /\ ~pass_focus[last_focused_id[1]]
    /\ ProgressBody(forward)

\* FocusState::progress, the early return on a focused node that keeps the focus
ProgressBlocked(forward) ==
    /\ last_focused_id # None
    /\ ~pass_focus[last_focused_id[1]]
    /\ fop' = CallRecord("progress", forward, FALSE)
    /\ trail' = TrailAfter(forward, None)
    /\ UNCHANGED <<level, pass_focus, focused, last_focused_id, focus_level, focus_iter>>
    /\ UNCHANGED nonFocus

\* FocusState::progress past the early return
ProgressRuns(forward) ==
    /\ last_focused_id # None => pass_focus[last_focused_id[1]]
    /\ ProgressBody(forward)

\* the record of a set_focus call: the node it was given and whether that
\* node had the focus when the call was made
SetFocusRecord(id) ==
    [kind |-> "set_focus", forward |-> TRUE, ret |-> TRUE,
     blocked |-> (last_focused_id # None /\ ~pass_focus[last_focused_id[1]]),
     id |-> id, again |-> (last_focused_id = Some(id))]

\* a set_focus that raises the flag of the node first and clears the flag of
\* the node focused before afterwards, as the end of progress does
SetFocus_flag_first(id) ==
    /\ focused' = [n \in FNodes |->
            IF last_focused_id # None /\ n = last_focused_id[1] THEN FALSE
            ELSE IF n = id THEN TRUE
            ELSE focused[n]]
    /\ last_focused_id' = Some(id)
    /\ focus_level' = level[id]
    /\ focus_iter' = id
    /\ fop' = SetFocusRecord(id)
    /\ trail' = VoidTrail
    /\ UNCHANGED <<level, pass_focus>>
    /\ UNCHANGED nonFocus

\* FocusState::set_focus
SetFocus(id) ==
    /\ focused' = [n \in FNodes |->
            IF n = id THEN TRUE
            ELSE IF last_focused_id # None /\ n = last_focused_id[1] THEN FALSE
            ELSE focused[n]]
    /\ last_focused_id' = Some(id)
    /\ focus_level' = level[id]
    /\ focus_iter' = id
    /\ fop' = SetFocusRecord(id)
    /\ trail' = VoidTrail
    /\ UNCHANGED <<level, pass_focus>>
    /\ UNCHANGED nonFocus

\* the focus pass between two calls: Focus::reduce leaves a new level in the
\* state of the node id, whose tabindex or listeners have changed
Recompute(id, l) ==
    /\ level[id] # l
    /\ level' = [level EXCEPT ![id] = l]
    /\ fop' = [NoCall EXCEPT !.kind = "reduce"]
    /\ trail' = VoidTrail
    /\ UNCHANGED <<pass_focus, focused, last_focused_id, focus_level, focus_iter>>
    /\ UNCHANGED nonFocus

FocusIdle ==
    /\ level = [n \in FNodes |-> Unfocusable]
    /\ pass_focus = [n \in FNodes |-> TRUE]
    /\ focused = [n \in FNodes |-> FALSE]
    /\ last_focused_id = None
    /\ focus_level = Unfocusable
    /\ focus_iter = FRoot
    /\ fop = NoCall
    /\ trail = [pure |-> TRUE, seq |-> <<>>]

\* FocusState::default over a tree whose focus pass has run: any levels below
\* the root, the root itself never focusable; either no node keeps the focus
\* to itself or every node below the root does
FocusInit ==
    /\ level \in {f \in [FNodes -> FocusLevel] : f[FRoot] = Unfocusable}
    /\ pass_focus \in {[n \in FNodes |-> TRUE], [n \in FNodes |-> n = FRoot]}
    /\ focused = [n \in FNodes |-> FALSE]
    /\ last_focused_id = None
    /\ focus_level = Unfocusable
    /\ focus_iter = FRoot
    /\ fop = NoCall
    /\ trail = [pure |-> TRUE, seq |-> <<>>]

(***************************************************************************)
(* The focus pass: Focus::reduce                                           *)
(***************************************************************************)
\* a string is the sequence of its characters
Str_true == <<"t", "r", "u", "e">>
Str_false == <<"f", "a", "l", "s", "e">>

Digits == <<"0", "1", "2", "3", "4", "5", "6", "7", "8", "9">>
IsDigit(c) == \E d \in 1..10 : Digits[d] = c
DigitValue(c) == (CHOOSE d \in 1..10 : Digits[d] = c) - 1

\* largest i32
I32Max == 2147483647
\* number of values of a u16
U16Modulus == 65536

\* the digits of str::parse::<i32>, most significant first, added to acc;
\* None on a character that is no digit and on a magnitude beyond limit
RECURSIVE ParseDigits(_, _, _)
ParseDigits(s, acc, limit) ==
    IF s = <<>> THEN Some(acc)
    ELSE IF ~IsDigit(s[1]) THEN None
    ELSE LET d == DigitValue(s[1])
         IN IF acc > (limit - d) \div 10 THEN None
            ELSE ParseDigits(Tail(s), acc * 10 + d, limit)

\* str::parse::<i32>: an optional sign, then one digit or more, nothing else;
\* Some(value) for Ok, None for Err
parse_i32(s) ==
    IF s = <<>> THEN None
    ELSE IF s[1] = "-"
    THEN IF Len(s) = 1 THEN None
         ELSE LET m == ParseDigits(Tail(s), 0, I32Max)
              IN IF m # None THEN Some(0 - m[1])
                 ELSE IF Tail(s) = <<"2", "1", "4", "7", "4", "8", "3", "6", "4", "8">>
                      THEN Some(0 - I32Max - 1) ELSE None
    ELSE IF s[1] = "+"
    THEN IF Len(s) = 1 THEN None ELSE ParseDigits(Tail(s), 0, I32Max)
    ELSE ParseDigits(s, 0, I32Max)

\* str::trim
IsSpace(c) == c \in {" ", "\t", "\n"}

RECURSIVE trim_start(_)
trim_start(s) == IF s # <<>> /\ IsSpace(s[1]) THEN trim_start(Tail(s)) ELSE s

RECURSIVE trim_end(_)
trim_end(s) ==
    IF s # <<>> /\ IsSpace(s[Len(s)]) THEN trim_end(SubSeq(s, 1, Len(s) - 1)) ELSE s

trim(s) == trim_end(trim_start(s))

\* index as u16, for index >= 0: the low sixteen bits
as_u16(index) == index % U16Modulus

\* NonZeroU16::new
NonZeroU16_new(n) == IF n = 0 THEN None ELSE Some(n)

FOCUS_EVENTS == {"keydown", "keyup", "keypress"}

\* the values the tabindex attribute is given
TabindexValues ==
    { <<"-", "1">>, <<"0">>, <<"1">>, <<"+", "2">>,
      <<"6", "5", "5", "3", "5">>, <<"6", "5", "5", "3", "6">>, <<"6", "5", "5", "3", "7">>,
      <<"2", "1", "4", "7", "4", "8", "3", "6", "4", "7">>,
      <<"2", "1", "4", "7", "4", "8", "3", "6", "4", "8">>,
      <<"-", "2", "1", "4", "7", "4", "8", "3", "6", "4", "8">>,
      <<>>, <<" ", "1">>, <<"a">> }

\* the values the dioxus-prevent-default attribute is given
PreventValues == { Str_true, <<" ">> \o Str_true \o <<"\n">>, Str_false }

\* the sets of events a node listens for
ListenerSets == { {}, {"click"}, {"keydown"}, {"click", "keyup"}, {"keypress"} }

\* NodeView, as far as reduce reads it: the two attributes (None when the
\* node does not carry the attribute) and the listeners
NodeViews ==
    [tabindex : {None} \cup {Some(v) : v \in TabindexValues},
     prevent_default : {None} \cup {Some(v) : v \in PreventValues},
     listeners : ListenerSets]

\* #[derive(Default)] of Focus
Focus_default == [pass_focus |-> FALSE, level |-> Unfocusable]

\* the pass_focus field of the Focus that reduce builds
reduce_pass_focus(node) ==
    ~(node.prevent_default # None /\ trim(node.prevent_default[1]) = Str_true)

\* the level field of the Focus that reduce builds: Some(level), or None where
\* the unwrap of NonZeroU16::new panics
reduce_level(node) ==
    IF node.tabindex # None
    THEN LET parsed == parse_i32(node.tabindex[1])
         IN IF parsed # None
            THEN LET index == parsed[1]
                 IN IF index < 0 THEN Some(Unfocusable)
                    ELSE IF index = 0 THEN Some(Focusable)
                    ELSE LET nz == NonZeroU16_new(as_u16(index))
                         IN IF nz = None THEN None ELSE Some(Ordered(nz[1]))
            ELSE Some(Unfocusable)
    ELSE IF \E l \in node.listeners : l \in FOCUS_EVENTS
         THEN Some(Focusable)
         ELSE Some(Unfocusable)

\* a reduce that reports a change of the level only
Focus_reduce_level(self, node) ==
    LET lv == reduce_level(node)
    IN IF lv = None
       THEN [panicked |-> TRUE, changed |-> FALSE, self |-> self]
       ELSE LET new == [pass_focus |-> reduce_pass_focus(node), level |-> lv[1]]
            IN IF self.level # new.level
               THEN [panicked |-> FALSE, changed |-> TRUE, self |-> new]
               ELSE [panicked |-> FALSE, changed |-> FALSE, self |-> self]

\* Focus::reduce: what it returns and what it leaves in self
Focus_reduce(self, node) ==
    LET lv == reduce_level(node)
    IN IF lv = None
       THEN [panicked |-> TRUE, changed |-> FALSE, self |-> self]
       ELSE LET new == [pass_focus |-> reduce_pass_focus(node), level |-> lv[1]]
            IN IF self # new
               THEN [panicked |-> FALSE, changed |-> TRUE, self |-> new]
               ELSE [panicked |-> FALSE, changed |-> FALSE, self |-> self]

NoReduce ==
    [kind |-> "none", node |-> [tabindex |-> None, prevent_default |-> None, listeners |-> {}],
     old |-> Focus_default, changed |-> FALSE, panicked |-> FALSE]

\* the pass run on the node, whose attributes and listeners are by now those
\* of node
Reduce(node) ==
    /\ ~rop.panicked
    /\ LET r == Focus_reduce(rfocus, node)
       IN /\ rfocus' = r.self
          /\ rop' = [kind |-> "reduce", node |-> node, old |-> rfocus,
                     changed |-> r.changed, panicked |-> r.panicked]
    /\ UNCHANGED nonReduce

\* a node whose state has just been built
ReduceIdle ==
    /\ rfocus = Focus_default
    /\ rop = NoReduce

(***************************************************************************)
(* Change masks                                                            *)
(***************************************************************************)
AttrNames == 1..NumAttrNames

\* the strictly increasing lists of attribute names ("must be sorted")
RECURSIVE SortedListOf(_)
SortedListOf(S) ==
    IF S = {} THEN <<>>
    ELSE LET x == CHOOSE y \in S : \A z \in S : y <= z
         IN <<x>> \o SortedListOf(S \ {x})

SortedLists == {SortedListOf(S) : S \in SUBSET AttrNames}

\* enum AttributeMask { All, Dynamic(Vec), Static(&[..]) }
All == [kind |-> "All", list |-> <<>>]
Dynamic(l) == [kind |-> "Dynamic", list |-> l]
Static(l) == [kind |-> "Static", list |-> l]
AttributeMasks == {All} \cup {Dynamic(l) : l \in SortedLists} \cup {Static(l) : l \in SortedLists}

\* AttributeMask::single
single(new) == Dynamic(<<new>>)

\* union_ordered_iter: the merge of two increasing lists, an element of both kept once
RECURSIVE union_ordered_iter(_, _)
union_ordered_iter(s, o) ==
    IF s = <<>> THEN o
    ELSE IF o = <<>> THEN s
    ELSE IF o[1] < s[1] THEN <<o[1]>> \o union_ordered_iter(s, Tail(o))
    ELSE IF o[1] = s[1] THEN <<s[1]>> \o union_ordered_iter(Tail(s), Tail(o))
    ELSE <<s[1]>> \o union_ordered_iter(Tail(s), o)

\* a union that hands back self as it is when other names nothing
AttributeMask_union_shortcut(self, other) ==
    IF other.kind # "All" /\ other.list = <<>> THEN self
    ELSE IF self.kind # "All" /\ other.kind # "All"
         THEN Dynamic(union_ordered_iter(self.list, other.list))
         ELSE All

\* AttributeMask::union
AttributeMask_union(self, other) ==
    IF self.kind # "All" /\ other.kind # "All"
    THEN Dynamic(union_ordered_iter(self.list, other.list))
    ELSE All

\* the inner loop of overlaps_iter: other_iter advanced while other_attr < self_attr
RECURSIVE SkipLess(_, _, _)
SkipLess(other_attr, other_rest, self_attr) ==
    IF other_attr < self_attr
    THEN IF other_rest # <<>>
         THEN SkipLess(other_rest[1], Tail(other_rest), self_attr)
         ELSE [some |-> FALSE, attr |-> other_attr, rest |-> other_rest]
    ELSE [some |-> TRUE, attr |-> other_attr, rest |-> other_rest]

\* the outer loop of overlaps_iter
RECURSIVE OverlapsLoop(_, _, _)
OverlapsLoop(self_rest, other_attr, other_rest) ==
    IF self_rest = <<>> THEN FALSE
    ELSE LET self_attr == self_rest[1]
             o == SkipLess(other_attr, other_rest, self_attr)
         IN IF ~o.some THEN FALSE
            ELSE IF o.attr = self_attr THEN TRUE
            ELSE OverlapsLoop(Tail(self_rest), o.attr, o.rest)

\* an overlaps_iter that gives up once a name of self is not the one other
\* stands on
overlaps_iter_head(self_iter, other_iter) ==
    self_iter # <<>> /\ other_iter # <<>> /\ self_iter[1] = other_iter[1]

\* AttributeMask::overlaps::overlaps_iter
overlaps_iter(self_iter, other_iter) ==
    IF other_iter = <<>> THEN FALSE
    ELSE OverlapsLoop(self_iter, other_iter[1], Tail(other_iter))

\* an overlaps that asks a Static list against a Dynamic one only for the Static
\* list's first name
AttributeMask_overlaps_first(self, other) ==
    CASE self.kind = "All" /\ other.kind = "All" -> TRUE
      [] self.kind = "All" /\ other.kind # "All" -> other.list # <<>>
      [] self.kind # "All" /\ other.kind = "All" -> self.list # <<>>
      [] self.kind = "Static" /\ other.kind = "Dynamic" ->
            overlaps_iter(other.list, IF self.list = <<>> THEN <<>> ELSE <<self.list[1]>>)
      [] OTHER -> overlaps_iter(self.list, other.list)

\* AttributeMask::overlaps
AttributeMask_overlaps(self, other) ==
    CASE self.kind = "All" /\ other.kind = "All" -> TRUE
      [] self.kind = "All" /\ other.kind # "All" -> other.list # <<>>
      [] self.kind # "All" /\ other.kind = "All" -> self.list # <<>>
      [] self.kind = "Dynamic" /\ other.kind = "Dynamic" -> overlaps_iter(self.list, other.list)
      [] self.kind = "Dynamic" /\ other.kind = "Static" -> overlaps_iter(self.list, other.list)
      [] self.kind = "Static" /\ other.kind = "Dynamic" -> overlaps_iter(other.list, self.list)
      [] self.kind = "Static" /\ other.kind = "Static" -> overlaps_iter(self.list, other.list)

\* struct NodeMask; the listeners facet is the one real_dom.rs sets with
\* set_listeners, beside the four fields of node_ref.rs
NodeMask_new(attritutes, tag, namespace, text) ==
    [attritutes |-> attritutes, tag |-> tag, namespace |-> namespace, text |-> text,
     listeners |-> FALSE]

NodeMask_NONE == NodeMask_new(Static(<<>>), FALSE, FALSE, FALSE)
NodeMask_ALL == [NodeMask_new(All, TRUE, TRUE, TRUE) EXCEPT !.listeners = TRUE]

\* the masks node_ref.rs can build
NodeMasks == {NodeMask_new(a, t, n, x) :
                a \in AttributeMasks, t \in BOOLEAN, n \in BOOLEAN, x \in BOOLEAN}

\* an overlaps that does not look at the text
NodeMask_overlaps_no_text(self, other) ==
    \/ (self.tag /\ other.tag)
    \/ (self.namespace /\ other.namespace)
    \/ AttributeMask_overlaps(self.attritutes, other.attritutes)
    \/ (self.listeners /\ other.listeners)

\* NodeMask::overlaps
NodeMask_overlaps(self, other) ==
    \/ (self.tag /\ other.tag)
    \/ (self.namespace /\ other.namespace)
    \/ AttributeMask_overlaps(self.attritutes, other.attritutes)
    \/ (self.text /\ other.text)
    \/ (self.listeners /\ other.listeners)

\* NodeMask::union
NodeMask_union(self, other) ==
    [attritutes |-> AttributeMask_union(self.attritutes, other.attritutes),
     tag |-> self.tag \/ other.tag,
     namespace |-> self.namespace \/ other.namespace,
     text |-> self.text \/ other.text,
     listeners |-> self.listeners \/ other.listeners]

NoMaskResults ==
    [done |-> FALSE, ab |-> NodeMask_NONE, ba |-> NodeMask_NONE,
     ab_c |-> NodeMask_NONE, a_bc |-> NodeMask_NONE, aa |-> NodeMask_NONE]

NoOverlapResults ==
    [done |-> FALSE, ab |-> FALSE, ba |-> FALSE, aa |-> FALSE, a_ab |-> FALSE]

\* two operands drawn; the third comes with the call
MaskInit ==
    /\ mA \in NodeMasks
    /\ mB \in NodeMasks
    /\ mC = NodeMask_NONE
    /\ mres = NoMaskResults
    /\ mov = NoOverlapResults

\* the unions of the operands, in both orders and both groupings
ApplyUnions(c) ==
    /\ ~mres.done
    /\ ~mov.done
    /\ mC' = c
    /\ mres' = [done |-> TRUE,
                ab |-> NodeMask_union(mA, mB),
                ba |-> NodeMask_union(mB, mA),
                ab_c |-> NodeMask_union(NodeMask_union(mA, mB), c),
                a_bc |-> NodeMask_union(mA, NodeMask_union(mB, c)),
                aa |-> NodeMask_union(mA, mA)]
    /\ UNCHANGED <<mA, mB, mov>>
    /\ UNCHANGED nonMask

\* overlaps of the operands, in both orders, of one with itself and of one
\* with its union with the other
ApplyOverlaps ==
    /\ ~mres.done
    /\ ~mov.done
    /\ mov' = [done |-> TRUE,
               ab |-> NodeMask_overlaps(mA, mB),
               ba |-> NodeMask_overlaps(mB, mA),
               aa |-> NodeMask_overlaps(mA, mA),
               a_ab |-> NodeMask_overlaps(mA, NodeMask_union(mA, mB))]
    /\ UNCHANGED <<mA, mB, mC, mres>>
    /\ UNCHANGED nonMask

MaskIdle ==
    /\ mA = NodeMask_NONE
    /\ mB = NodeMask_NONE
    /\ mC = NodeMask_NONE
    /\ mres = NoMaskResults
    /\ mov = NoOverlapResults

(***************************************************************************)
(* The watched mask of a pass (node_ref.rs)                                *)
(***************************************************************************)
\* the lists of attribute names a pass can write down for Static: any order,
\* names repeated
AnyLists == UNION {[1..k -> AttrNames] : k \in 0..MaxStaticLen}

\* attrs.windows(2).all(|w| w[0] < w[1])
windows_increasing(attrs) == \A i \in 1..(Len(attrs) - 1) : attrs[i] < attrs[i + 1]

\* AttributeMask::verify: a debug_assert, which only a build with debug
\* assertions evaluates; FALSE where it panics
AttributeMask_verify(self, debug_assertions) ==
    \/ self.kind = "All"
    \/ ~debug_assertions
    \/ windows_increasing(self.list)

\* the loop of slice::binary_search(..).is_ok() between left and right
RECURSIVE binary_search(_, _, _, _)
binary_search(l, x, left, right) ==
    IF left >= right THEN FALSE
    ELSE LET mid == left + ((right - left) \div 2)
         IN IF l[mid + 1] = x THEN TRUE
            ELSE IF l[mid + 1] < x THEN binary_search(l, x, mid + 1, right)
            ELSE binary_search(l, x, left, mid)

\* AttributeMask::contains_attribute
contains_attribute(self, attr) ==
    IF self.kind = "All" THEN TRUE ELSE binary_search(self.list, attr, 0, Len(self.list))

\* the masks a pass can hand to NodeMask::new
WatchedMasks ==
    {NodeMask_new(a, t, n, x) :
        a \in {All} \cup {Dynamic(l) : l \in SortedLists} \cup {Static(l) : l \in AnyLists},
        t \in BOOLEAN, n \in BOOLEAN, x \in BOOLEAN}

\* the masks the edits of one node gather
DirtyMasks == {NodeMask_new(Dynamic(l), FALSE, FALSE, x) : l \in SortedLists, x \in BOOLEAN}

NoWatch ==
    [mask |-> NodeMask_NONE, debug_assertions |-> FALSE, stage |-> "written",
     contains |-> <<>>, overlaps |-> <<>>]

\* a pass has written its mask down, in a build with or without debug assertions
WatchInit ==
    watch \in {[NoWatch EXCEPT !.mask = m, !.debug_assertions = b] :
                  m \in WatchedMasks, b \in BOOLEAN}

\* NodeMask::new(attritutes, tag, namespace, text): a const fn that stores
\* its arguments
Construct ==
    /\ watch.stage = "written"
    /\ watch' = [watch EXCEPT !.stage = "constructed",
                              !.mask = NodeMask_new(@.attritutes, @.tag, @.namespace, @.text)]
    /\ UNCHANGED nonWatch

\* RealDom::new(passes) with the pass that carries the mask
Register ==
    /\ watch.stage = "constructed"
    /\ watch' = [watch EXCEPT !.stage = "registered"]
    /\ UNCHANGED nonWatch

\* NodeView::attributes: the filter asks the mask of the pass for one name
ContainsAttribute(attr) ==
    /\ watch.stage \in {"registered", "used"}
    /\ watch' = [watch EXCEPT !.stage = "used",
                              !.contains = Some([attr |-> attr,
                                                 ret |-> contains_attribute(watch.mask.attritutes, attr)])]
    /\ UNCHANGED nonWatch

\* update_state: mask.overlaps(&pass.mask) for the mask the edits of a node
\* gathered
OverlapsWatched(dirty) ==
    /\ watch.stage \in {"registered", "used"}
    /\ watch' = [watch EXCEPT !.stage = "used",
                              !.overlaps = Some([dirty |-> dirty,
                                                 ret |-> NodeMask_overlaps(dirty, watch.mask)])]
    /\ UNCHANGED nonWatch

\* no pass mask under way
WatchIdle == watch = NoWatch

(***************************************************************************)

(* Tree: the arena behind RealDom (crate::tree)                            *)
(***************************************************************************)
NodeIds == 0..(MaxNodes - 1)
RootId == 0
ElementIds == 0..MaxElementId
Values == 1..NumValues
Events == {"click", "keydown"}

\* a free slot of the arena
DeadNode == [live |-> FALSE, parent |-> None, children |-> <<>>, height |-> 0]
\* a node that has just been created: detached, no children
FreshNode == [live |-> TRUE, parent |-> None, children |-> <<>>, height |-> 0]

\* Tree::new: the root alone
Tree_new == [n \in NodeIds |-> IF n = RootId THEN FreshNode ELSE DeadNode]

Tree_height(t, id) == IF t[id].live THEN Some(t[id].height) ELSE None
Tree_parent_id(t, id) == IF t[id].live THEN t[id].parent ELSE None

\* the elements of a sequence
Range(s) == {s[i] : i \in 1..Len(s)}

\* the nodes reached from the set S through the child lists
RECURSIVE SubtreeFrom(_, _, _)
SubtreeFrom(t, S, k) ==
    LET S2 == S \cup UNION {Range(t[n].children) : n \in S}
    IN IF k = 0 \/ S2 = S THEN S ELSE SubtreeFrom(t, S2, k - 1)

Subtree(t, id) == SubtreeFrom(t, {id}, MaxNodes)

\* the height of id set to h and that of its descendants below it
RECURSIVE set_height(_, _, _)
RECURSIVE set_height_all(_, _, _)
set_height(t, id, h) ==
    set_height_all([t EXCEPT ![id].height = h], t[id].children, h + 1)
set_height_all(t, cs, h) ==
    IF cs = <<>> THEN t ELSE set_height_all(set_height(t, cs[1], h), Tail(cs), h)

\* whether new can be hung below parent: both are nodes of the arena, as is all
\* that hangs below new, and parent does not hang below new (the walk that
\* sets the heights would not end)
CanAttach(t, parent, new) ==
    /\ t[parent].live
    /\ \A n \in Subtree(t, new) : t[n].live
    /\ parent \notin Subtree(t, new)

\* the first place of x in the sequence s, 0 when it has none
IndexOf(s, x) ==
    IF x \in Range(s) THEN CHOOSE i \in 1..Len(s) : s[i] = x /\ \A j \in 1..(i - 1) : s[j] # x
    ELSE 0

\* s with x put in so that it comes to place i
InsertAt(s, i, x) == SubSeq(s, 1, i - 1) \o <<x>> \o SubSeq(s, i, Len(s))

\* s without its elements equal to x
RECURSIVE Without(_, _)
Without(s, x) ==
    IF s = <<>> THEN <<>>
    ELSE (IF s[1] = x THEN <<>> ELSE <<s[1]>>) \o Without(Tail(s), x)

\* Tree::add_child: new becomes the last child of parent
Tree_add_child(t, parent, new) ==
    LET t1 == [t EXCEPT ![new].parent = Some(parent),
                        ![parent].children = Append(@, new)]
    IN set_height(t1, new, t[parent].height + 1)

\* Tree::insert_before: new becomes the sibling before id
Tree_insert_before(t, id, new) ==
    LET parent_id == t[id].parent[1]
        index == IndexOf(t[parent_id].children, id)
        t1 == [t EXCEPT ![new].parent = Some(parent_id),
                        ![parent_id].children = InsertAt(@, index, new)]
    IN set_height(t1, new, t[parent_id].height + 1)

\* Tree::insert_after: new becomes the sibling after id
Tree_insert_after(t, id, new) ==
    LET parent_id == t[id].parent[1]
        index == IndexOf(t[parent_id].children, id)
        t1 == [t EXCEPT ![new].parent = Some(parent_id),
                        ![parent_id].children = InsertAt(@, index + 1, new)]
    IN set_height(t1, new, t[parent_id].height + 1)

\* whether new can be put beside id: id has a parent that lists it
CanInsertBeside(t, id, new) ==
    /\ t[id].live
    /\ t[id].parent # None
    /\ t[t[id].parent[1]].live
    /\ id \in Range(t[t[id].parent[1]].children)
    /\ CanAttach(t, t[id].parent[1], new)

\* Tree::remove: id is taken out of its parent's child list and the slots of
\* id and of all that hangs below it are freed
Tree_remove(t, id) ==
    LET gone == Subtree(t, id)
        t1 == IF t[id].parent # None /\ t[t[id].parent[1]].live
              THEN [t EXCEPT ![t[id].parent[1]].children = Without(@, id)]
              ELSE t
    IN [n \in NodeIds |-> IF n \in gone THEN DeadNode ELSE t1[n]]

(***************************************************************************)
(* RealDom (real_dom.rs)                                                   *)
(***************************************************************************)
\* NodeData of a free slot
NoData == [ntype |-> "None", attributes |-> [a \in AttrNames |-> 0], listeners |-> {},
           text |-> 0, element_id |-> None]

\* NodeData::new(NodeType::..): the three node types; an attribute that is not
\* set has the value 0, the empty text is 0
ElementData(attributes) ==
    [ntype |-> "Element", attributes |-> attributes, listeners |-> {}, text |-> 0,
     element_id |-> None]
TextData(text) == [NoData EXCEPT !.ntype = "Text", !.text = text]
PlaceholderData == [NoData EXCEPT !.ntype = "Placeholder"]

NoAttributes == [a \in AttrNames |-> 0]

\* the state slots of the passes on a node, before any pass has run on it
NoState == [Q |-> 0, P |-> 0, R |-> 0]

\* a drop that leaves the mask of the last edit alone
mark_dirty_overwrite(d, node_id, mask) ==
    [d EXCEPT !.nodes_updated =
        [n \in (DOMAIN @) \cup {node_id} |-> IF n = node_id THEN mask ELSE @[n]]]

\* RealDom::mark_dirty and the drop of a NodeMut: the mask is added to what
\* the node has gathered (real_dom.rs:84-90, 583-594)
mark_dirty(d, node_id, mask) ==
    [d EXCEPT !.nodes_updated =
        IF node_id \in DOMAIN d.nodes_updated
        THEN [@ EXCEPT ![node_id] = NodeMask_union(@, mask)]
        ELSE [n \in (DOMAIN @) \cup {node_id} |-> IF n = node_id THEN mask ELSE @[n]]]

\* RealDom::mark_parent_added_or_removed
mark_parent_added_or_removed(d, node_id) ==
    [d EXCEPT !.parent_changed_nodes = @ \cup {node_id}]

\* RealDom::mark_child_changed
mark_child_changed(d, node_id) ==
    [d EXCEPT !.child_changed_nodes = @ \cup {node_id}]

\* a failed unwrap, index or subtraction: the batch is aborted
Panic(d) == [d EXCEPT !.ok = FALSE]

\* RealDom::element_to_node_id, None where the code panics
element_to_node_id(d, element_id) ==
    IF element_id \in ElementIds THEN d.node_id_mapping[element_id] ELSE None

\* RealDom::set_element_id
set_element_id(d, node_id, element_id) ==
    IF ~d.ok \/ ~d.tree[node_id].live THEN Panic(d)
    ELSE [d EXCEPT !.data[node_id].element_id = Some(element_id),
                   !.node_id_mapping[element_id] = Some(node_id)]

\* RealDom::load_child from the node current on, None where the code panics
RECURSIVE load_child_from(_, _, _)
load_child_from(d, current, path) ==
    IF path = <<>> THEN Some(current)
    ELSE IF ~d.tree[current].live \/ path[1] + 1 > Len(d.tree[current].children) THEN None
    ELSE load_child_from(d, d.tree[current].children[path[1] + 1], Tail(path))

\* RealDom::load_child
load_child(d, path) ==
    IF d.stack = <<>> THEN None ELSE load_child_from(d, d.stack[Len(d.stack)], path)

\* the slot Tree::create_node takes: the lowest free one
NextFree(d) ==
    IF \E n \in NodeIds : ~d.tree[n].live
    THEN Some(CHOOSE n \in NodeIds : ~d.tree[n].live /\ \A k \in 0..(n - 1) : d.tree[k].live)
    ELSE None

\* RealDom::create_node; the new node is NextFree(d)
create_node(d, node, id, mark) ==
    IF ~d.ok \/ NextFree(d) = None THEN Panic(d)
    ELSE LET node_id == NextFree(d)[1]
         IN [d EXCEPT !.tree[node_id] = FreshNode,
                      !.data[node_id] = [node EXCEPT !.element_id = id],
                      !.state[node_id] = NoState,
                      !.nodes_created = IF mark THEN @ \cup {node_id} ELSE @]

\* RealDom::add_child
add_child(d, node_id, child_id) ==
    IF ~d.ok \/ ~CanAttach(d.tree, node_id, child_id) THEN Panic(d)
    ELSE [d EXCEPT !.tree = Tree_add_child(@, node_id, child_id)]

\* the call self.tree.insert_before(old_node_id, new) of apply_mutations
tree_insert_before(d, id, new) ==
    IF ~d.ok \/ ~CanInsertBeside(d.tree, id, new) THEN Panic(d)
    ELSE [d EXCEPT !.tree = Tree_insert_before(@, id, new)]

\* the call self.tree.insert_after(old_node_id, new) of apply_mutations
tree_insert_after(d, id, new) ==
    IF ~d.ok \/ ~CanInsertBeside(d.tree, id, new) THEN Panic(d)
    ELSE [d EXCEPT !.tree = Tree_insert_after(@, id, new)]

\* RealDom::remove
remove(d, id) ==
    IF ~d.ok \/ ~d.tree[id].live THEN Panic(d)
    ELSE LET gone == Subtree(d.tree, id)
             d1 == IF Tree_parent_id(d.tree, id) # None
                   THEN mark_child_changed(d, Tree_parent_id(d.tree, id)[1])
                   ELSE d
         IN [d1 EXCEPT !.tree = Tree_remove(@, id),
                       !.data = [n \in NodeIds |-> IF n \in gone THEN NoData ELSE @[n]],
                       !.state = [n \in NodeIds |-> IF n \in gone THEN NoState ELSE @[n]]]

\* a split that takes one node off the stack whatever the count
StackKept_one(d, m) == SubSeq(d.stack, 1, Len(d.stack) - 1)

\* self.stack.split_off(self.stack.len() - m): what stays and what is taken
StackKept(d, m) == SubSeq(d.stack, 1, Len(d.stack) - m)
StackTaken(d, m) == SubSeq(d.stack, Len(d.stack) - m + 1, Len(d.stack))

\* the children added from the top of the stack down
RECURSIVE add_children_popped(_, _, _)
add_children_popped(d, parent, children) ==
    IF children = <<>> THEN d
    ELSE add_children_popped(add_child(d, parent, children[Len(children)]), parent,
                             SubSeq(children, 1, Len(children) - 1))

\* for child in children { self.add_child(parent, child) }
RECURSIVE add_children(_, _, _)
add_children(d, parent, children) ==
    IF children = <<>> THEN d
    ELSE add_children(add_child(d, parent, children[1]), parent, Tail(children))

\* the new nodes put in before the old one from the top of the stack down
RECURSIVE insert_all_before_popped(_, _, _)
insert_all_before_popped(d, old_node_id, new_nodes) ==
    IF new_nodes = <<>> THEN d
    ELSE insert_all_before_popped(
            tree_insert_before(d, old_node_id, new_nodes[Len(new_nodes)]),
            old_node_id, SubSeq(new_nodes, 1, Len(new_nodes) - 1))

\* for new in new_nodes { self.tree.insert_before(old_node_id, new) }
RECURSIVE insert_all_before(_, _, _)
insert_all_before(d, old_node_id, new_nodes) ==
    IF new_nodes = <<>> THEN d
    ELSE insert_all_before(tree_insert_before(d, old_node_id, new_nodes[1]),
                           old_node_id, Tail(new_nodes))

\* for new in new_nodes.into_iter().rev() { self.tree.insert_after(old_node_id, new) }
RECURSIVE insert_all_after_rev(_, _, _)
insert_all_after_rev(d, old_node_id, new_nodes) ==
    IF new_nodes = <<>> THEN d
    ELSE insert_all_after_rev(
            tree_insert_after(d, old_node_id, new_nodes[Len(new_nodes)]),
            old_node_id, SubSeq(new_nodes, 1, Len(new_nodes) - 1))

\* the push of apply_mutations; the model's stack holds MaxStack entries
push(d, node_id) ==
    IF ~d.ok \/ Len(d.stack) >= MaxStack THEN Panic(d)
    ELSE [d EXCEPT !.stack = Append(@, node_id)]

(***************************************************************************)
(* Payload edits, templates and listeners (real_dom.rs)                    *)
(***************************************************************************)
\* NodeMask::default() with one facet set: what NodeMut gathers before its drop
Mask_text == [NodeMask_NONE EXCEPT !.text = TRUE]
Mask_listeners == [NodeMask_NONE EXCEPT !.listeners = TRUE]
Mask_attribute(name) == [NodeMask_NONE EXCEPT !.attritutes = single(name)]

\* the mask NodeMut::node_type_mut sets by itself: a text node is marked as
\* soon as its payload is borrowed, whatever is done with it
node_type_mut_dirty(d, node_id) ==
    IF d.data[node_id].ntype = "Text" THEN Mask_text ELSE NodeMask_NONE

\* the set of an event in the reverse index with node_id put in
listening_insert(nl, name, node_id) ==
    [e \in (DOMAIN nl) \cup {name} |->
        IF e = name THEN (IF e \in DOMAIN nl THEN nl[e] ELSE {}) \cup {node_id} ELSE nl[e]]

\* the copy given the children of the node it is copied from
clone_children_shared(d, new_id, children) == add_children(d, new_id, children)

\* RealDom::clone_node: the record of the dom after the call and of the id
\* of the copy
RECURSIVE clone_node(_, _)
RECURSIVE clone_children(_, _, _)
clone_node(d, node_id) ==
    IF ~d.ok \/ ~d.tree[node_id].live \/ NextFree(d) = None
    THEN [d |-> Panic(d), id |-> node_id]
    ELSE LET new_id == NextFree(d)[1]
             d1 == create_node(d, d.data[node_id], None, TRUE)
         IN [d |-> clone_children(d1, new_id, d.tree[node_id].children), id |-> new_id]
clone_children(d, new_id, children) ==
    IF children = <<>> \/ ~d.ok THEN d
    ELSE LET c == clone_node(d, children[1])
         IN clone_children(add_child(c.d, new_id, c.id), new_id, Tail(children))

\* TemplateNode
TElement(attrs, children) == [kind |-> "Element", attrs |-> attrs, children |-> children]
TDynamicText == [kind |-> "DynamicText", attrs |-> NoAttributes, children |-> <<>>]

\* the NodeData create_template_node makes of a template node
TemplateData(node) ==
    CASE node.kind = "Element" -> ElementData(node.attrs)
      [] node.kind = "Text" -> TextData(node.text)
      [] node.kind = "Dynamic" -> PlaceholderData
      [] node.kind = "DynamicText" -> TextData(0)

\* RealDom::create_template_node
RECURSIVE create_template_node(_, _)
RECURSIVE create_template_children(_, _, _)
create_template_node(d, node) ==
    IF ~d.ok \/ NextFree(d) = None THEN [d |-> Panic(d), id |-> RootId]
    ELSE LET node_id == NextFree(d)[1]
             d1 == create_node(d, TemplateData(node), None, TRUE)
         IN [d |-> create_template_children(d1, node_id, node.children), id |-> node_id]
create_template_children(d, node_id, children) ==
    IF children = <<>> \/ ~d.ok THEN d
    ELSE LET c == create_template_node(d, children[1])
         IN create_template_children(add_child(c.d, node_id, c.id), node_id, Tail(children))

\* for root in template.roots { template_root_ids.push(create_template_node(root)) }
RECURSIVE create_template_roots(_, _, _)
create_template_roots(d, roots, template_root_ids) ==
    IF roots = <<>> \/ ~d.ok THEN [d |-> d, ids |-> template_root_ids]
    ELSE LET c == create_template_node(d, roots[1])
         IN create_template_roots(c.d, Tail(roots), Append(template_root_ids, c.id))

\* the template loop of apply_mutations for one template
add_template(d, template) ==
    LET r == create_template_roots(d, template.roots, <<>>)
    IN IF ~r.d.ok THEN r.d
       ELSE [r.d EXCEPT !.templates =
                [n \in (DOMAIN @) \cup {template.name} |->
                    IF n = template.name THEN r.ids ELSE @[n]]]

\* RealDom::get_listening_sorted: whether the call panics, which it does on the
\* height of a listening node that is gone
get_listening_sorted_panics(d, event) ==
    /\ event \in DOMAIN d.nodes_listening
    /\ \E n \in d.nodes_listening[event] : Tree_height(d.tree, n) = None

(***************************************************************************)
(* Passes and update_state (real_dom.rs, crate::passes)                    *)
(***************************************************************************)
\* three registered passes (TypeErasedPass): Q reads the attribute 1 of its
\* own node, P reads the Q of the parent, R reads the Q of the children
PassQ ==
    [this_type_id |-> "Q", mask |-> NodeMask_new(Static(<<1>>), FALSE, FALSE, FALSE),
     parent_dependant |-> FALSE, child_dependant |-> FALSE,
     combined_dependancy_type_ids |-> {}, dependants |-> {}]
PassP ==
    [this_type_id |-> "P", mask |-> NodeMask_NONE,
     parent_dependant |-> TRUE, child_dependant |-> FALSE,
     combined_dependancy_type_ids |-> {"Q"}, dependants |-> {}]
PassR ==
    [this_type_id |-> "R", mask |-> NodeMask_NONE,
     parent_dependant |-> FALSE, child_dependant |-> TRUE,
     combined_dependancy_type_ids |-> {"Q"}, dependants |-> {}]

\* the orders in which the three can be registered
PassOrders ==
    {<<PassQ, PassP, PassR>>, <<PassQ, PassR, PassP>>, <<PassP, PassQ, PassR>>,
     <<PassP, PassR, PassQ>>, <<PassR, PassQ, PassP>>, <<PassR, PassP, PassQ>>}

\* the loop of RealDom::new that resolves the dependants: current runs over
\* the passes at the split points 1 .. len - 1, each the last one before
\* its split point, and is entered in every other pass it depends on
resolve_dependants(passes) ==
    [j \in 1..Len(passes) |->
        [passes[j] EXCEPT !.dependants =
            @ \cup {passes[i].this_type_id : i \in
                      {k \in 1..(Len(passes) - 1) :
                          /\ k # j
                          /\ passes[j].this_type_id \in passes[k].combined_dependancy_type_ids}}]]

\* RealDom::new
RealDom_new(passes) ==
    [ok |-> TRUE,
     tree |-> Tree_new,
     data |-> [n \in NodeIds |->
                 IF n = RootId THEN [ElementData(NoAttributes) EXCEPT !.element_id = Some(0)]
                 ELSE NoData],
     state |-> [n \in NodeIds |-> NoState],
     node_id_mapping |-> [e \in ElementIds |-> IF e = 0 THEN Some(RootId) ELSE None],
     nodes_listening |-> <<>>,
     stack |-> <<RootId>>,
     templates |-> <<>>,
     passes |-> resolve_dependants(passes),
     nodes_updated |-> [n \in {RootId} |-> NodeMask_ALL],
     passes_updated |-> {},
     parent_changed_nodes |-> {},
     child_changed_nodes |-> {},
     nodes_created |-> {}]

\* the nodes of the arena
Live(d) == {n \in NodeIds : d.tree[n].live}

\* a dirty_nodes that takes the nodes of the four sets as they come
dirty_nodes_unfiltered(d) ==
    LET P == Range(d.passes)
    IN d.passes_updated
       \cup UNION {{<<p.this_type_id, n>> : p \in {q \in P : NodeMask_overlaps(d.nodes_updated[n], q.mask)}} :
                     n \in DOMAIN d.nodes_updated}
       \cup UNION {{<<p.this_type_id, n>> : p \in {q \in P : q.child_dependant}} :
                     n \in d.child_changed_nodes}
       \cup UNION {{<<p.this_type_id, n>> : p \in {q \in P : q.parent_dependant}} :
                     n \in d.parent_changed_nodes}
       \cup UNION {{<<p.this_type_id, n>> : p \in P} : n \in d.nodes_created}

\* the four loops of update_state that fill the dirty nodes: a pair is a
\* pass and a node it has to run on
dirty_nodes(d) ==
    LET P == Range(d.passes)
    IN d.passes_updated
       \cup UNION {{<<p.this_type_id, n>> : p \in {q \in P : NodeMask_overlaps(d.nodes_updated[n], q.mask)}} :
                     n \in (DOMAIN d.nodes_updated) \cap Live(d)}
       \cup UNION {{<<p.this_type_id, n>> : p \in {q \in P : q.child_dependant}} :
                     n \in d.child_changed_nodes \cap Live(d)}
       \cup UNION {{<<p.this_type_id, n>> : p \in {q \in P : q.parent_dependant}} :
                     n \in d.parent_changed_nodes \cap Live(d)}
       \cup UNION {{<<p.this_type_id, n>> : p \in P} : n \in d.nodes_created \cap Live(d)}

\* dirty_nodes.insert(pass.this_type_id, node, height): the entries with the
\* height the loops read with self.tree.height(node)
dirty_entries(d) ==
    {<<e[1], e[2], d.tree[e[2]].height>> : e \in dirty_nodes(d)}

\* the nodes of the four sets for which self.tree.height(node) is None
dropped_nodes(d) ==
    ((DOMAIN d.nodes_updated) \cup d.child_changed_nodes \cup d.parent_changed_nodes
        \cup d.nodes_created) \ Live(d)

\* the largest of a set of numbers, 0 for the empty set
MaxOf(S) == IF S = {} THEN 0 ELSE CHOOSE x \in S : \A y \in S : y <= x

\* the reduction functions of the three passes
reduce(d, st, pass_id, n) ==
    CASE pass_id = "Q" ->
            IF d.data[n].ntype = "Element" THEN d.data[n].attributes[1] ELSE 0
      [] pass_id = "P" ->
            IF d.tree[n].parent # None /\ d.tree[d.tree[n].parent[1]].live
            THEN st[d.tree[n].parent[1]].Q ELSE 0
      [] pass_id = "R" ->
            MaxOf({st[c].Q : c \in Range(d.tree[n].children) \cap Live(d)})

\* the pass with the given id
PassOf(d, pass_id) == CHOOSE p \in Range(d.passes) : p.this_type_id = pass_id

\* where a dependant is scheduled when the pass it reads has changed on n:
\* on n, on the children of n if it reads its parent, on the parent of n if
\* it reads its children
Targets(d, dependant, n) ==
    {n} \cup (IF PassOf(d, dependant).parent_dependant
              THEN Range(d.tree[n].children) \cap Live(d) ELSE {})
        \cup (IF PassOf(d, dependant).child_dependant /\ d.tree[n].parent # None
              THEN {d.tree[n].parent[1]} \cap Live(d) ELSE {})

\* one pass resolved: it runs on its dirty nodes, commits what has changed
\* and schedules its dependants
resolve_pass(d, r, pass_id) ==
    LET nodes == {n \in Live(d) : <<pass_id, n>> \in r.dirty}
        changed == {n \in nodes : reduce(d, r.state, pass_id, n) # r.state[n][pass_id]}
    IN [state |-> [n \in NodeIds |->
                     IF n \in changed
                     THEN [r.state[n] EXCEPT ![pass_id] = reduce(d, r.state, pass_id, n)]
                     ELSE r.state[n]],
        dirty |-> r.dirty \cup
                  UNION {{<<dep, m>> : m \in Targets(d, dep, n)} :
                            dep \in PassOf(d, pass_id).dependants, n \in changed},
        ran |-> r.ran \cup {<<pass_id, n>> : n \in nodes},
        changed |-> r.changed \cup {<<pass_id, n>> : n \in changed}]

\* resolve_passes: a pass runs once the passes it reads are resolved
resolve_passes(d, dirty) ==
    resolve_pass(d,
        resolve_pass(d,
            resolve_pass(d, [state |-> d.state, dirty |-> dirty, ran |-> {}, changed |-> {}],
                         "Q"),
            "P"),
        "R")

\* an update_state that leaves the set of the nodes made where it is
update_state_keeps_created(d) ==
    [d EXCEPT !.state = resolve_passes(d, dirty_nodes(d)).state,
              !.passes_updated = {},
              !.nodes_updated = <<>>,
              !.child_changed_nodes = {},
              !.parent_changed_nodes = {}]

\* RealDom::update_state: the dom after the call
update_state(d) ==
    [d EXCEPT !.state = resolve_passes(d, dirty_nodes(d)).state,
              !.passes_updated = {},
              !.nodes_updated = <<>>,
              !.child_changed_nodes = {},
              !.parent_changed_nodes = {},
              !.nodes_created = {}]

(***************************************************************************)
(* The RealDom under single edits and update_state                         *)
(***************************************************************************)
\* the external ids an edit binds and the ones it names
BindIds == 1..MaxElementId
Paths == {<<>>, <<0>>}
Counts == 1..MaxCount

\* one template with two element roots: the first carries a static
\* attribute and a dynamic text, the second is empty
TheTemplate ==
    [name |-> "t",
     roots |-> <<TElement([a \in AttrNames |-> IF a = 1 THEN 1 ELSE 0], <<TDynamicText>>),
                 TElement(NoAttributes, <<>>)>>]

\* the record of an edit: its kind and its arguments, the nodes it took off
\* the stack and the nodes it freed
Op(kind, id, m, path, name, value) ==
    [kind |-> kind, id |-> id, m |-> m, path |-> path, name |-> name, value |-> value,
     index |-> 0, taken |-> <<>>, freed |-> {}]
NoOp == Op("none", 0, 0, <<>>, 0, 0)

\* what the last update_state made run
NoUpdate == [dirty |-> {}, dropped |-> {}, ran |-> {}, changed |-> {}, nodes_updated |-> <<>>]

\* the template instances loaded so far, without the nodes that are gone
InstancesIn(d, inst) ==
    [i \in 1..Len(inst) |-> [inst[i] EXCEPT !.nodes = @ \cap Live(d)]]

\* the nodes made since the last update_state, after a call that takes the
\* dom to d: those of them that are left, and the nodes the call made
CreatedIn(d) == (created \cap Live(d)) \cup (Live(d) \ Live(dom))

\* apply_mutations with the one edit that takes the dom to d, unless it panics
Edit(d, op) ==
    /\ budget > 0
    /\ d.ok
    /\ dom' = d
    /\ dop' = [op EXCEPT !.taken = IF op.m <= Len(dom.stack) THEN StackTaken(dom, op.m) ELSE <<>>,
                         !.freed = Live(dom) \ Live(d)]
    /\ upd' = NoUpdate
    /\ budget' = budget - 1
    /\ instances' = InstancesIn(d, instances)
    /\ created' = CreatedIn(d)
    /\ UNCHANGED nonDom

\* Mutation::AppendChildren { id, m }
AppendChildren(id, m) ==
    Edit(IF m > Len(dom.stack) \/ element_to_node_id(dom, id) = None THEN Panic(dom)
         ELSE add_children([dom EXCEPT !.stack = StackKept(dom, m)],
                           element_to_node_id(dom, id)[1], StackTaken(dom, m)),
         Op("AppendChildren", id, m, <<>>, 0, 0))

\* Mutation::AssignId { path, id }
AssignId(path, id) ==
    Edit(IF load_child(dom, path) = None THEN Panic(dom)
         ELSE set_element_id(dom, load_child(dom, path)[1], id),
         Op("AssignId", id, 0, path, 0, 0))

\* Mutation::CreatePlaceholder { id }
CreatePlaceholder(id) ==
    Edit(IF NextFree(dom) = None THEN Panic(dom)
         ELSE push(set_element_id(create_node(dom, PlaceholderData, None, TRUE), NextFree(dom)[1], id),
                   NextFree(dom)[1]),
         Op("CreatePlaceholder", id, 0, <<>>, 0, 0))

\* Mutation::CreateTextNode { value, id }
CreateTextNode(value, id) ==
    Edit(IF NextFree(dom) = None THEN Panic(dom)
         ELSE push(set_element_id(create_node(dom, TextData(value), None, TRUE), NextFree(dom)[1], id),
                   NextFree(dom)[1]),
         Op("CreateTextNode", id, 0, <<>>, 0, value))

\* Mutation::HydrateText { path, value, id }
HydrateText(path, value, id) ==
    Edit(IF load_child(dom, path) = None THEN Panic(dom)
         ELSE LET node_id == load_child(dom, path)[1]
                  d1 == set_element_id(dom, node_id, id)
              IN IF ~d1.ok THEN d1
                 ELSE IF d1.data[node_id].ntype = "Text"
                 THEN mark_dirty([d1 EXCEPT !.data[node_id].text = value], node_id, Mask_text)
                 ELSE mark_dirty([d1 EXCEPT !.data[node_id] =
                                     [TextData(value) EXCEPT !.element_id = d1.data[node_id].element_id]],
                                 node_id, NodeMask_ALL),
         Op("HydrateText", id, 0, path, 0, value))

\* Mutation::LoadTemplate { name, index, id } of the template
LoadTemplate(index, id) ==
    LET d ==
            IF TheTemplate.name \notin DOMAIN dom.templates THEN Panic(dom)
            ELSE IF index + 1 > Len(dom.templates[TheTemplate.name]) THEN Panic(dom)
            ELSE LET c == clone_node(dom, dom.templates[TheTemplate.name][index + 1])
                 IN push(set_element_id(c.d, c.id, id), c.id)
    IN /\ budget > 0
       /\ d.ok
       /\ dom' = d
       /\ dop' = [Op("LoadTemplate", id, 0, <<>>, 0, 0) EXCEPT !.index = index]
       /\ upd' = NoUpdate
       /\ budget' = budget - 1
       /\ instances' = Append(InstancesIn(d, instances),
                              [index |-> index,
                               nodes |-> Subtree(d.tree, d.stack[Len(d.stack)])])
       /\ created' = CreatedIn(d)
       /\ UNCHANGED nonDom

\* Mutation::ReplaceWith { id, m }
ReplaceWith(id, m) ==
    Edit(IF m > Len(dom.stack) \/ element_to_node_id(dom, id) = None THEN Panic(dom)
         ELSE LET old_node_id == element_to_node_id(dom, id)[1]
              IN remove(insert_all_before([dom EXCEPT !.stack = StackKept(dom, m)],
                                          old_node_id, StackTaken(dom, m)),
                        old_node_id),
         Op("ReplaceWith", id, m, <<>>, 0, 0))

\* Mutation::ReplacePlaceholder { path, m }
ReplacePlaceholder(path, m) ==
    Edit(IF m > Len(dom.stack) THEN Panic(dom)
         ELSE LET d1 == [dom EXCEPT !.stack = StackKept(dom, m)]
              IN IF load_child(d1, path) = None THEN Panic(dom)
                 ELSE remove(insert_all_before(d1, load_child(d1, path)[1], StackTaken(dom, m)),
                             load_child(d1, path)[1]),
         Op("ReplacePlaceholder", 0, m, path, 0, 0))

\* Mutation::InsertAfter { id, m }
InsertAfter(id, m) ==
    Edit(IF m > Len(dom.stack) \/ element_to_node_id(dom, id) = None THEN Panic(dom)
         ELSE insert_all_after_rev([dom EXCEPT !.stack = StackKept(dom, m)],
                                   element_to_node_id(dom, id)[1], StackTaken(dom, m)),
         Op("InsertAfter", id, m, <<>>, 0, 0))

\* Mutation::InsertBefore { id, m }
InsertBefore(id, m) ==
    Edit(IF m > Len(dom.stack) \/ element_to_node_id(dom, id) = None THEN Panic(dom)
         ELSE insert_all_before([dom EXCEPT !.stack = StackKept(dom, m)],
                                element_to_node_id(dom, id)[1], StackTaken(dom, m)),
         Op("InsertBefore", id, m, <<>>, 0, 0))

\* Mutation::SetAttribute { name, value, id, ns }; the value 0 is
\* BorrowedAttributeValue::None
SetAttribute(name, value, id) ==
    Edit(IF element_to_node_id(dom, id) = None THEN Panic(dom)
         ELSE LET node_id == element_to_node_id(dom, id)[1]
              IN IF ~dom.tree[node_id].live THEN Panic(dom)
                 ELSE IF dom.data[node_id].ntype = "Element"
                 THEN mark_dirty([dom EXCEPT !.data[node_id].attributes[name] = value],
                                 node_id, Mask_attribute(name))
                 ELSE mark_dirty(dom, node_id, node_type_mut_dirty(dom, node_id)),
         Op("SetAttribute", id, 0, <<>>, name, value))

\* Mutation::SetText { value, id }
SetText(value, id) ==
    Edit(IF element_to_node_id(dom, id) = None THEN Panic(dom)
         ELSE LET node_id == element_to_node_id(dom, id)[1]
              IN IF ~dom.tree[node_id].live THEN Panic(dom)
                 ELSE IF dom.data[node_id].ntype = "Text"
                 THEN mark_dirty([dom EXCEPT !.data[node_id].text = value], node_id, Mask_text)
                 ELSE mark_dirty(dom, node_id, NodeMask_NONE),
         Op("SetText", id, 0, <<>>, 0, value))

\* Mutation::NewEventListener { name, id }
NewEventListener(name, id) ==
    Edit(IF element_to_node_id(dom, id) = None THEN Panic(dom)
         ELSE LET node_id == element_to_node_id(dom, id)[1]
              IN IF ~dom.tree[node_id].live THEN Panic(dom)
                 ELSE IF dom.data[node_id].ntype = "Element"
                 THEN mark_dirty([dom EXCEPT !.data[node_id].listeners = @ \cup {name},
                                           !.nodes_listening = listening_insert(@, name, node_id)],
                                 node_id, Mask_listeners)
                 ELSE mark_dirty(dom, node_id, node_type_mut_dirty(dom, node_id)),
         Op("NewEventListener", id, 0, <<>>, name, 0))

\* Mutation::RemoveEventListener { id, name }
RemoveEventListener(name, id) ==
    Edit(IF element_to_node_id(dom, id) = None THEN Panic(dom)
         ELSE LET node_id == element_to_node_id(dom, id)[1]
              IN IF ~dom.tree[node_id].live \/ name \notin DOMAIN dom.nodes_listening THEN Panic(dom)
                 ELSE LET d1 == IF dom.data[node_id].ntype = "Element"
                                THEN mark_dirty([dom EXCEPT !.data[node_id].listeners = @ \ {name}],
                                                node_id, Mask_listeners)
                                ELSE mark_dirty(dom, node_id, node_type_mut_dirty(dom, node_id))
                      IN [d1 EXCEPT !.nodes_listening[name] = @ \ {node_id}],
         Op("RemoveEventListener", id, 0, <<>>, name, 0))

\* Mutation::Remove { id }
Remove(id) ==
    Edit(IF element_to_node_id(dom, id) = None THEN Panic(dom)
         ELSE remove(dom, element_to_node_id(dom, id)[1]),
         Op("Remove", id, 0, <<>>, 0, 0))

\* Mutation::PushRoot { id }
PushRoot(id) ==
    Edit(IF element_to_node_id(dom, id) = None THEN Panic(dom)
         ELSE push(dom, element_to_node_id(dom, id)[1]),
         Op("PushRoot", id, 0, <<>>, 0, 0))

\* apply_mutations with the template and no edit; the template is given once
AddTemplate ==
    /\ TheTemplate.name \notin DOMAIN dom.templates
    /\ add_template(dom, TheTemplate).ok
    /\ dom' = add_template(dom, TheTemplate)
    /\ dop' = Op("AddTemplate", 0, 0, <<>>, 0, 0)
    /\ upd' = NoUpdate
    /\ created' = CreatedIn(add_template(dom, TheTemplate))
    /\ UNCHANGED <<budget, instances>>
    /\ UNCHANGED nonDom

\* RealDom::update_state
UpdateState ==
    /\ dom' = update_state(dom)
    /\ dop' = Op("update_state", 0, 0, <<>>, 0, 0)
    /\ upd' = [dirty |-> dirty_entries(dom),
               dropped |-> dropped_nodes(dom),
               ran |-> resolve_passes(dom, dirty_nodes(dom)).ran,
               changed |-> resolve_passes(dom, dirty_nodes(dom)).changed,
               nodes_updated |-> dom.nodes_updated]
    /\ created' = {}
    /\ UNCHANGED <<budget, instances>>
    /\ UNCHANGED nonDom

\* the RealDom as RealDom::new makes it, the passes registered in some order
DomInitWith(orders, edits) ==
    /\ dom \in {RealDom_new(passes) : passes \in orders}
    /\ dop = NoOp
    /\ upd = NoUpdate
    /\ budget = edits
    /\ instances = <<>>
    /\ created = {}

\* a dom that takes no edit
DomIdle == DomInitWith({<<PassP, PassR, PassQ>>}, 0)

\* the focus navigator over an unchanging tree
InitFocus == FocusInit /\ MaskIdle /\ DomIdle /\ ReduceIdle /\ WatchIdle

NextFocus ==
    \/ \E forward \in BOOLEAN : ProgressBlocked(forward)
    \/ \E forward \in BOOLEAN : ProgressRuns(forward)
    \/ \E id \in FNodes : SetFocus(id)

SpecFocus == InitFocus /\ [][NextFocus]_vars

\* the focus navigator over a tree whose focus levels are recomputed between
\* the calls
NextFocusEdit ==
    \/ \E forward \in BOOLEAN : ProgressRuns(forward)
    \/ \E id \in FNodes : SetFocus(id)
    \/ \E id \in FNodes \ {FRoot}, l \in FocusLevel : Recompute(id, l)

SpecFocusEdit == InitFocus /\ [][NextFocusEdit]_vars

\* the focus pass run again and again on one node whose attributes and
\* listeners change between the runs
InitReduce == ReduceIdle /\ FocusIdle /\ MaskIdle /\ DomIdle /\ WatchIdle

NextReduce == \E node \in NodeViews : Reduce(node)

SpecReduce == InitReduce /\ [][NextReduce]_vars

\* union and overlaps applied to drawn masks
InitMask == MaskInit /\ FocusIdle /\ DomIdle /\ ReduceIdle /\ WatchIdle

NextMask ==
    \/ \E c \in NodeMasks : ApplyUnions(c)
    \/ ApplyOverlaps

SpecMask == InitMask /\ [][NextMask]_vars

\* one pass mask from its writing to its use during edits
InitWatch == WatchInit /\ FocusIdle /\ MaskIdle /\ DomIdle /\ ReduceIdle

NextWatch ==
    \/ Construct
    \/ Register
    \/ \E attr \in AttrNames : ContainsAttribute(attr)
    \/ \E dirty \in DirtyMasks : OverlapsWatched(dirty)

SpecWatch == InitWatch /\ [][NextWatch]_vars

\* structural edits on a dom of placeholders
InitDomStruct == DomInitWith({<<PassP, PassR, PassQ>>}, MaxEdits) /\ FocusIdle /\ MaskIdle /\ ReduceIdle /\ WatchIdle

NextDomStruct ==
    \/ \E id \in BindIds : CreatePlaceholder(id)
    \/ \E id \in ElementIds : PushRoot(id)
    \/ \E id \in ElementIds, m \in Counts : AppendChildren(id, m)
    \/ \E id \in ElementIds, m \in Counts : InsertAfter(id, m)
    \/ \E id \in ElementIds, m \in Counts : InsertBefore(id, m)
    \/ \E id \in ElementIds, m \in Counts : ReplaceWith(id, m)
    \/ \E path \in Paths, m \in Counts : ReplacePlaceholder(path, m)
    \/ \E id \in ElementIds : Remove(id)

SpecDomStruct == InitDomStruct /\ [][NextDomStruct]_vars

\* template instances and edits of their payload
InitDomTemplate == DomInitWith({<<PassP, PassR, PassQ>>}, MaxTemplateEdits) /\ FocusIdle /\ MaskIdle /\ ReduceIdle /\ WatchIdle

NextDomTemplate ==
    \/ AddTemplate
    \/ \E index \in {0, 1}, id \in BindIds : LoadTemplate(index, id)
    \/ \E id \in BindIds : AssignId(<<0>>, id)
    \/ \E id \in BindIds : HydrateText(<<0>>, NumValues, id)
    \/ \E name \in AttrNames, id \in BindIds : SetAttribute(name, NumValues, id)
    \/ \E id \in BindIds : SetText(NumValues, id)
    \/ \E id \in BindIds : NewEventListener("click", id)
    \/ UpdateState

SpecDomTemplate == InitDomTemplate /\ [][NextDomTemplate]_vars

\* listeners on nodes that are attached, replaced and removed
InitDomListen == DomInitWith({<<PassP, PassR, PassQ>>}, MaxListenEdits) /\ FocusIdle /\ MaskIdle /\ ReduceIdle /\ WatchIdle

NextDomListen ==
    \/ AddTemplate
    \/ \E index \in {0, 1}, id \in BindIds : LoadTemplate(index, id)
    \/ \E id \in ElementIds, m \in Counts : AppendChildren(id, m)
    \/ \E id \in ElementIds, m \in Counts : ReplaceWith(id, m)
    \/ \E name \in Events, id \in ElementIds : NewEventListener(name, id)
    \/ \E name \in Events, id \in ElementIds : RemoveEventListener(name, id)
    \/ \E id \in ElementIds : Remove(id)

SpecDomListen == InitDomListen /\ [][NextDomListen]_vars

\* every kind of edit, for the stack they work on
MaxStackEdits == 4

InitDomStack == DomInitWith({<<PassP, PassR, PassQ>>}, MaxStackEdits) /\ FocusIdle /\ MaskIdle /\ ReduceIdle /\ WatchIdle

NextDomStack ==
    \/ AddTemplate
    \/ \E id \in BindIds : LoadTemplate(0, id)
    \/ \E id \in BindIds : CreatePlaceholder(id)
    \/ \E id \in BindIds : CreateTextNode(1, id)
    \/ \E id \in ElementIds : PushRoot(id)
    \/ \E id \in ElementIds, m \in Counts : AppendChildren(id, m)
    \/ \E id \in ElementIds, m \in Counts : InsertAfter(id, m)
    \/ \E id \in ElementIds, m \in Counts : InsertBefore(id, m)
    \/ \E id \in ElementIds, m \in Counts : ReplaceWith(id, m)
    \/ \E m \in Counts : ReplacePlaceholder(<<0>>, m)
    \/ \E id \in BindIds : AssignId(<<0>>, id)
    \/ \E id \in BindIds : HydrateText(<<0>>, 1, id)
    \/ \E id \in ElementIds : SetAttribute(1, 1, id)
    \/ \E id \in ElementIds : SetText(1, id)
    \/ \E id \in ElementIds : NewEventListener("click", id)
    \/ \E id \in ElementIds : RemoveEventListener("click", id)
    \/ \E id \in ElementIds : Remove(id)

SpecDomStack == InitDomStack /\ [][NextDomStack]_vars

\* edits of the payload of the nodes of one template instance, with
\* update_state between them
MaxMaskEdits == 4

InitDomMask == DomInitWith({<<PassP, PassR, PassQ>>}, MaxMaskEdits) /\ FocusIdle /\ MaskIdle /\ ReduceIdle /\ WatchIdle

NextDomMask ==
    \/ AddTemplate
    \/ \E id \in BindIds : LoadTemplate(0, id)
    \/ \E id \in BindIds : HydrateText(<<0>>, NumValues, id)
    \/ \E name \in AttrNames, id \in BindIds : SetAttribute(name, NumValues, id)
    \/ \E id \in BindIds : SetText(NumValues, id)
    \/ \E id \in BindIds : NewEventListener("click", id)
    \/ \E id \in BindIds : RemoveEventListener("click", id)
    \/ UpdateState

SpecDomMask == InitDomMask /\ [][NextDomMask]_vars

\* passes registered in every order, run after edits
InitDomPasses == DomInitWith(PassOrders, MaxPassEdits) /\ FocusIdle /\ MaskIdle /\ ReduceIdle /\ WatchIdle

NextDomPasses ==
    \/ \E id \in BindIds : CreateTextNode(1, id)
    \/ \E id \in ElementIds, m \in Counts : AppendChildren(id, m)
    \/ \E value \in 0..NumValues, id \in ElementIds : SetAttribute(1, value, id)
    \/ \E id \in BindIds : Remove(id)
    \/ UpdateState

SpecDomPasses == InitDomPasses /\ [][NextDomPasses]_vars

(***************************************************************************)
(* Claims about the focus navigator                                        *)
(***************************************************************************)
FocusableNodes == {n \in FNodes : focusable(level[n])}

\* the place of a focusable node in the documented focus order: ascending
\* Ordered rank, then the plain Focusable nodes, ties in document order
OrderKey(n) ==
    (IF level[n].kind = "Ordered" THEN level[n].rank ELSE MaxRank + 1) * (NumFocusNodes + 1) + n

\* the node after n in that order, the first one after the last
FocusSucc(n) ==
    LET later == {m \in FocusableNodes : OrderKey(m) > OrderKey(n)}
        from == IF later = {} THEN FocusableNodes ELSE later
    IN CHOOSE m \in from : \A k \in from : OrderKey(m) <= OrderKey(k)

\* the focusable nodes in document order
RECURSIVE DocOrderFrom(_)
DocOrderFrom(n) ==
    IF n > NumFocusNodes THEN <<>>
    ELSE (IF focusable(level[n]) THEN <<n>> ELSE <<>>) \o DocOrderFrom(n + 1)

IsPrefix(s, t) == Len(s) <= Len(t) /\ \A i \in 1..Len(s) : s[i] = t[i]

AllPassFocus == \A n \in FNodes : pass_focus[n]

\* a focusable node holds the focus at its own level and may pass it on
FocusedAtOwnLevel ==
    /\ last_focused_id # None
    /\ pass_focus[last_focused_id[1]]
    /\ focusable(level[last_focused_id[1]])
    /\ focus_level = level[last_focused_id[1]]
    /\ Cardinality(FocusableNodes) >= 2

\* C1: on an unchanging tree with at least two focusable nodes, every
\* progress(forward = true) made from a focused node returns true and moves the
\* focus to the next node of the focus order (ascending Ordered rank, then the
\* plain Focusable nodes, ties in document order, the first after the last), so
\* that n calls visit every focusable node once and end on the starting node.
C1_ForwardIsCyclic ==
    [][(FocusedAtOwnLevel /\ fop'.kind = "progress" /\ fop'.forward) =>
            /\ fop'.ret
            /\ last_focused_id' = Some(FocusSucc(last_focused_id[1]))]_vars

\* the levels of C2: the focusable nodes are, in document order, Ordered(1),
\* Ordered(2), Focusable, Focusable, and no node keeps the focus
C2Levels ==
    /\ AllPassFocus
    /\ Len(DocOrderFrom(FRoot)) = 4
    /\ [i \in 1..4 |-> level[DocOrderFrom(FRoot)[i]]] =
            <<Ordered(1), Ordered(2), Focusable, Focusable>>

\* C2: with the levels [Ordered(1), Ordered(2), Focusable, Focusable] and no
\* node focused, the successive progress(forward = true) calls focus the first,
\* the second, the third and the fourth of these nodes, and the fifth call
\* focuses the first again.
C2_OrderedThenFocusable ==
    (C2Levels /\ trail.pure) =>
        LET d == DocOrderFrom(FRoot)
        IN IsPrefix(SubSeq(trail.seq, 1, IF Len(trail.seq) < 5 THEN Len(trail.seq) ELSE 5),
                    <<Some(d[1]), Some(d[2]), Some(d[3]), Some(d[4]), Some(d[1])>>)

C2_Witness == C2Levels /\ trail.pure /\ Len(trail.seq) >= 5

\* C3: a progress call in either direction made while the focused node has
\* pass_focus = false returns false and leaves the focused node, every focused
\* flag, the sought level and the cursor as they were.
C3_BlockedKeepsFocus ==
    [][(last_focused_id # None /\ ~pass_focus[last_focused_id[1]] /\ fop'.kind = "progress") =>
            /\ ~fop'.ret
            /\ UNCHANGED <<last_focused_id, focused, focus_level, focus_iter>>]_vars

C3_Witness ==
    /\ fop.kind = "progress"
    /\ fop.blocked
    /\ ~fop.forward
    /\ ~fop.ret
    /\ focusable(focus_level)
    /\ Cardinality(FocusableNodes) >= 2

\* C18: after set_focus(n) on any node n, the focused node and an Unfocusable
\* node included: the focused flag of n is true, the flag of the node focused
\* before is false if that node is not n, the last focused node is n, the
\* sought level is the level of n, and the cursor sits on n.
C18_SetFocusPost ==
    [][fop'.kind = "set_focus" =>
          LET n == fop'.id
          IN /\ focused'[n]
             /\ (last_focused_id # None /\ last_focused_id[1] # n)
                    => ~focused'[last_focused_id[1]]
             /\ last_focused_id' = Some(n)
             /\ focus_level' = level'[n]
             /\ focus_iter' = n]_vars

\* set_focus on the very node that has the focus, an Unfocusable one
C18_Witness ==
    /\ fop.kind = "set_focus"
    /\ fop.again
    /\ level[fop.id] = Unfocusable
    /\ focused[fop.id]
    /\ focus_level = Unfocusable
    /\ focus_iter = fop.id

\* C19: whenever progress, forward or backward, returns false nothing about
\* the focus has changed: the last focused node, the focused flag of every
\* node and the sought level are as before the call.
C19_FalseKeepsFocus ==
    [][(fop'.kind = "progress" /\ ~fop'.ret) =>
            UNCHANGED <<last_focused_id, focused, focus_level>>]_vars

\* C15: the comparison of FocusLevel orders
\* Unfocusable < Focusable < Ordered(r) for every positive rank r.
C15_LevelOrder ==
    \A a \in FNodes, b \in FNodes :
        /\ (level[a] = Unfocusable /\ level[b] = Focusable) => lt(level[a], level[b])
        /\ (level[a] = Focusable /\ level[b].kind = "Ordered") => lt(level[a], level[b])
        /\ (level[a] = Unfocusable /\ level[b].kind = "Ordered") => lt(level[a], level[b])

\* the tabindex values by what they stand for
TabindexNegative ==
    { <<"-", "1">>, <<"-", "2", "1", "4", "7", "4", "8", "3", "6", "4", "8">> }
TabindexZero == { <<"0">> }
TabindexUnparseable ==
    { <<>>, <<" ", "1">>, <<"a">>, <<"2", "1", "4", "7", "4", "8", "3", "6", "4", "8">> }
TabindexPositive == TabindexValues \ (TabindexNegative \cup TabindexZero \cup TabindexUnparseable)

\* the prevent-default values that read "true" once trimmed
PreventsDefault(node) ==
    node.prevent_default \in {Some(Str_true), Some(<<" ">> \o Str_true \o <<"\n">>)}

\* C16: the focus pass gives Unfocusable for a tabindex that is present and
\* negative or unparseable, Focusable for tabindex 0, Focusable for no
\* tabindex and a keydown, keyup or keypress listener, Unfocusable for no
\* tabindex and no such listener; it reports a change exactly when the new
\* (level, pass_focus) pair differs from the stored one.
C16_ReduceCases ==
    (rop.kind = "reduce" /\ ~rop.panicked) =>
        LET node == rop.node
            new == [pass_focus |-> ~PreventsDefault(node), level |-> rfocus.level]
        IN /\ (node.tabindex # None /\ node.tabindex[1] \in TabindexNegative \cup TabindexUnparseable)
                    => rfocus.level = Unfocusable
           /\ (node.tabindex # None /\ node.tabindex[1] \in TabindexZero)
                    => rfocus.level = Focusable
           /\ (node.tabindex = None /\ node.listeners \cap {"keydown", "keyup", "keypress"} # {})
                    => rfocus.level = Focusable
           /\ (node.tabindex = None /\ node.listeners \cap {"keydown", "keyup", "keypress"} = {})
                    => rfocus.level = Unfocusable
           /\ rop.changed <=> (new # rop.old)
           /\ rop.changed => rfocus = new
           /\ ~rop.changed => rfocus = rop.old

\* a node that lost its tabindex and its prevent-default and gained a keyup
\* listener: the level stays, the pass_focus changes
C16_Witness ==
    /\ rop.kind = "reduce"
    /\ rop.node.tabindex = None
    /\ rop.node.listeners = {"click", "keyup"}
    /\ rop.changed
    /\ rop.old = [pass_focus |-> FALSE, level |-> Focusable]
    /\ rfocus = [pass_focus |-> TRUE, level |-> Focusable]

\* C17: for every tabindex that parses as a positive 32-bit signed integer r
\* the level is Ordered(r), the rank kept exactly, ranks above 65535
\* included, and the pass never fails.
C17_PositiveRankKept ==
    (rop.kind = "reduce" /\ rop.node.tabindex # None
                         /\ rop.node.tabindex[1] \in TabindexPositive) =>
        /\ ~rop.panicked
        /\ rfocus.level = Ordered(parse_i32(rop.node.tabindex[1])[1])

\* a call that ran its loop, wrapped around and found nothing, with a node
\* focused and another focusable node about
C19_Witness ==
    /\ fop.kind = "progress"
    /\ ~fop.ret
    /\ ~fop.blocked
    /\ last_focused_id # None
    /\ focused[last_focused_id[1]]
    /\ focus_iter # last_focused_id[1]
    /\ Cardinality(FocusableNodes) >= 2

\* C32: after any sequence of progress and set_focus calls, with focus levels
\* recomputed between them, the focused flags agree with the recorded focus:
\* when a last focused node is recorded, that node and no other has
\* focused = true; when none is recorded, no node has
C32_FlagsAgreeWithRecord ==
    \A n \in FNodes : focused[n] <=> last_focused_id = Some(n)

\* the call of progress in the direction forward made right after the step:
\* its early return, or what its loop leaves
ProgressNextBlocked == ~pass_focus'[last_focused_id'[1]]
ProgressNextResult(forward) ==
    ProgressLoop(forward, focus_iter', last_focused_id', focus_level', focus_level', Fuel)

\* a call of progress that moves the focus from the node that has it back to
\* that node in the other direction succeeds right after it
MovesBack ==
    LET A == last_focused_id[1]
        r == ProgressNextResult(~fop'.forward)
    IN /\ ~ProgressNextBlocked
       /\ r.ended
       /\ r.next_focus = Some(A)
       /\ r.focus_level = level[A]

\* C33: on an unchanging tree, backward is the inverse of forward: when the
\* node A has the focus and progress(forward) succeeds and moves the focus
\* to B, a progress in the other direction right after it succeeds and
\* moves the focus back to A, the sought level being that of A again; and
\* likewise for progress(false) followed by progress(true). Asked where A is
\* focusable and B passes the focus on, so that the way back is not closed
\* by the early return or by A's level.
C33_BackwardInverts ==
    [][(/\ fop'.kind = "progress"
        /\ fop'.ret
        /\ last_focused_id # None
        /\ focused[last_focused_id[1]]
        /\ focusable(level[last_focused_id[1]])
        /\ pass_focus[last_focused_id'[1]]) => MovesBack]_vars

\* C25: every call of progress ends, in either direction, for every tree and
\* every sought level that set_focus, progress and the recomputation of the
\* levels between the calls can leave, also when no node has the sought level
\* any more and when no node is focusable at all.
C25_ProgressEnds ==
    \A forward \in BOOLEAN :
        (last_focused_id # None => pass_focus[last_focused_id[1]])
            => ProgressResult(forward).ended

(***************************************************************************)
(* Claims about the change masks                                           *)
(***************************************************************************)
\* C10: AttributeMask::union and NodeMask::union are commutative and
\* associative: union(A, B) = union(B, A) and
\* union(union(A, B), C) = union(A, union(B, C)) for all masks A, B, C.
C10_UnionCommutesAssociates ==
    mres.done =>
        /\ mres.ab = mres.ba
        /\ mres.ab_c = mres.a_bc
        /\ AttributeMask_union(mA.attritutes, mB.attritutes)
                = AttributeMask_union(mB.attritutes, mA.attritutes)
        /\ AttributeMask_union(AttributeMask_union(mA.attritutes, mB.attritutes), mC.attritutes)
                = AttributeMask_union(mA.attritutes, AttributeMask_union(mB.attritutes, mC.attritutes))

C10_Witness ==
    /\ mres.done
    /\ mA.attritutes = Static(<<2>>)
    /\ mB.attritutes = Dynamic(<<>>)
    /\ mC.attritutes = Static(<<1>>)
    /\ mA.tag /\ ~mB.tag /\ mC.text
    /\ mres.ab_c.attritutes = Dynamic(<<1, 2>>)

\* a mask with something in it: a facet set, or an attribute part that is All
\* or names an attribute
NonEmptyMask(m) ==
    \/ m.tag \/ m.namespace \/ m.text \/ m.listeners
    \/ m.attritutes.kind = "All"
    \/ m.attritutes.list # <<>>

\* C11: AttributeMask::union and NodeMask::union are idempotent: for every
\* mask A, whether its attribute part is All, Static or Dynamic,
\* union(A, A) equals A.
C11_UnionIdempotent ==
    mres.done =>
        /\ mres.aa = mA
        /\ AttributeMask_union(mA.attritutes, mA.attritutes) = mA.attritutes

\* the attribute names a mask stands for: All is every name
AttributeSet(a) == IF a.kind = "All" THEN AttrNames ELSE Range(a.list)

\* C31: a watched mask whose Static list is not strictly increasing fails
\* when the mask is constructed or the pass is registered: no such mask is
\* ever accepted, nor used afterwards for a membership or an overlap test
C31_UnsortedStaticRejected ==
    (watch.stage # "written" /\ watch.mask.attritutes.kind = "Static") =>
        windows_increasing(watch.mask.attritutes.list)

\* longer lists for the merge alone: the strictly increasing lists of the
\* names 1..MaxMergeName
MaxMergeName == 4
MergeLists == {SortedListOf(S) : S \in SUBSET (1..MaxMergeName)}

\* C29: overlaps(A, B) is true exactly when tag, namespace or text is set in
\* both masks or the attribute sets have a name in common, All standing for
\* every attribute name; for two strictly increasing lists the merge says
\* true exactly when they share an element
C29_OverlapsIffShared ==
    mov.done =>
        /\ mov.ab <=> \/ mA.tag /\ mB.tag
                      \/ mA.namespace /\ mB.namespace
                      \/ mA.text /\ mB.text
                      \/ AttributeSet(mA.attritutes) \cap AttributeSet(mB.attritutes) # {}
        /\ AttributeMask_overlaps(mA.attritutes, mB.attritutes)
              <=> AttributeSet(mA.attritutes) \cap AttributeSet(mB.attritutes) # {}
        /\ overlaps_iter(mA.attritutes.list, mB.attritutes.list)
              <=> Range(mA.attritutes.list) \cap Range(mB.attritutes.list) # {}
        /\ (mA = NodeMask_NONE /\ mB = NodeMask_NONE) =>
              \A s \in MergeLists, o \in MergeLists :
                  overlaps_iter(s, o) <=> Range(s) \cap Range(o) # {}

\* two masks with facets set and attributes named, none in common: they do
\* not overlap
C29_Witness ==
    /\ mov.done
    /\ mA.attritutes = Dynamic(<<1>>)
    /\ mB.attritutes = Static(<<2>>)
    /\ mA.text /\ ~mA.tag /\ ~mA.namespace
    /\ mB.tag /\ mB.namespace /\ ~mB.text
    /\ ~mov.ab /\ ~mov.ba

\* C12: for all masks A and B with A non-empty, A overlaps union(A, B).
C12_OverlapsOwnUnion ==
    (mov.done /\ NonEmptyMask(mA)) =>
        /\ mov.a_ab
        /\ (mA.attritutes.kind = "All" \/ mA.attritutes.list # <<>>) =>
              AttributeMask_overlaps(mA.attritutes,
                    AttributeMask_union(mA.attritutes, mB.attritutes))

C12_Witness ==
    /\ mov.done
    /\ mA.attritutes = Static(<<2>>)
    /\ ~mA.tag /\ ~mA.namespace /\ ~mA.text
    /\ mB.attritutes = Dynamic(<<1>>)
    /\ mov.a_ab
    /\ ~mov.ab

\* C13: overlaps is symmetric, overlaps(A, B) = overlaps(B, A) for every
\* pairing of All, Static and Dynamic attribute parts, and overlaps(A, A) is
\* true for every non-empty mask A.
C13_OverlapsSymmetricReflexive ==
    mov.done =>
        /\ mov.ab = mov.ba
        /\ AttributeMask_overlaps(mA.attritutes, mB.attritutes)
                = AttributeMask_overlaps(mB.attritutes, mA.attritutes)
        /\ NonEmptyMask(mA) => mov.aa

C13_Witness ==
    /\ mov.done
    /\ mA.attritutes = Static(<<1, 2>>)
    /\ mB.attritutes = Dynamic(<<2>>)
    /\ ~mA.tag /\ ~mA.namespace /\ ~mA.text
    /\ mov.ab /\ mov.ba /\ mov.aa


(***************************************************************************)
(* Claims about the RealDom                                                *)
(***************************************************************************)
\* the node an edit names: by its external id, or by its path from the top
\* of the stack once the count is taken off
AnchorOf(d, op) ==
    IF op.kind = "ReplacePlaceholder"
    THEN load_child([d EXCEPT !.stack = StackKept(d, op.m)], op.path)[1]
    ELSE element_to_node_id(d, op.id)[1]

StructuralKinds ==
    {"AppendChildren", "ReplaceWith", "ReplacePlaceholder", "InsertAfter", "InsertBefore", "Remove"}

\* the parent whose child list a structural edit changes
ChangedParentOf(d, op) ==
    IF op.kind = "AppendChildren" THEN Some(AnchorOf(d, op))
    ELSE d.tree[AnchorOf(d, op)].parent

\* C6: every structural edit (append-children, replace, replace-placeholder,
\* insert-after, insert-before, remove) records the parent whose child list
\* changed in the child-changed set and every node that gained a new parent
\* in the parent-changed set
C6_StructuralEditsMarked ==
    [][dop'.kind \in StructuralKinds =>
          /\ ChangedParentOf(dom, dop') # None =>
                ChangedParentOf(dom, dop')[1] \in dom'.child_changed_nodes
          /\ dop'.kind # "Remove" => Range(dop'.taken) \subseteq dom'.parent_changed_nodes]_vars

\* C14: the operand stack is empty at the start of every batch, the first
\* batch applied to a freshly constructed store included, and is empty again
\* at the end of a batch whose operations pop exactly what they push. Before
\* the first edit is the start of the first batch.
C14_StackEmptyAtBatchStart ==
    dop.kind = "none" => dom.stack = <<>>

\* C7: append-children(p, m) with m >= 1 takes the m top nodes X1..Xm off
\* the stack and the children of p end with X1..Xm in the order they were
\* pushed
C7_AppendKeepsPushOrder ==
    [][(dop'.kind = "AppendChildren" /\ dop'.m >= 1) =>
          LET p == AnchorOf(dom, dop')
              cs == dom'.tree[p].children
          IN /\ dom'.stack = StackKept(dom, dop'.m)
             /\ Len(cs) = Len(dom.tree[p].children) + dop'.m
             /\ SubSeq(cs, Len(cs) - dop'.m + 1, Len(cs)) = StackTaken(dom, dop'.m)]_vars

\* two nodes appended to a parent that already had a child
C7_Witness ==
    /\ dop.kind = "AppendChildren"
    /\ dop.m = 2
    /\ dop.taken[1] # dop.taken[2]
    /\ Len(dom.tree[AnchorOf(dom, dop)].children) > 2

\* what replace leaves: the subtree of the anchor is gone and the nodes taken
\* off the stack stand, in push order, where the anchor stood among its
\* siblings, which keep their order
ReplacedInPlace(d, d2, op) ==
    LET anchor == AnchorOf(d, op)
        p == d.tree[anchor].parent[1]
        cs == d.tree[p].children
        i == IndexOf(cs, anchor)
    IN /\ \A n \in Subtree(d.tree, anchor) : ~d2.tree[n].live
       /\ d2.tree[p].children =
             SubSeq(cs, 1, i - 1) \o op.taken \o Without(SubSeq(cs, i + 1, Len(cs)), anchor)
       /\ \A x \in Range(op.taken) : d2.tree[x].live /\ d2.tree[x].parent = Some(p)

InsertedBeside(d, d2, op) ==
    LET anchor == AnchorOf(d, op)
        p == d.tree[anchor].parent[1]
        cs == d.tree[p].children
        i == IndexOf(cs, anchor)
    IN /\ d2.stack = StackKept(d, op.m)
       /\ d2.tree[p].children =
             IF op.kind = "InsertAfter"
             THEN SubSeq(cs, 1, i) \o op.taken \o SubSeq(cs, i + 1, Len(cs))
             ELSE SubSeq(cs, 1, i - 1) \o op.taken \o SubSeq(cs, i, Len(cs))
       /\ \A x \in Range(op.taken) : d2.tree[x].parent = Some(p)

\* C26: insert-after(anchor, m) leaves the siblings as [.., anchor, X1, ..,
\* Xm, ..] and insert-before(anchor, m) as [.., X1, .., Xm, anchor, ..] for
\* the m nodes pushed in the order X1..Xm: the inserted nodes stand in push
\* order and the anchor and the other siblings keep their order
C26_InsertKeepsPushOrder ==
    [][dop'.kind \in {"InsertAfter", "InsertBefore"} =>
          InsertedBeside(dom, dom', dop')]_vars

PushKinds == {"CreatePlaceholder", "CreateTextNode", "LoadTemplate", "PushRoot"}
PopKinds == {"AppendChildren", "ReplaceWith", "ReplacePlaceholder", "InsertAfter", "InsertBefore"}
StackNeutralKinds ==
    {"AssignId", "HydrateText", "SetAttribute", "SetText", "NewEventListener",
     "RemoveEventListener", "Remove"}

\* C27: every edit changes the depth of the stack by a fixed amount:
\* create-placeholder, create-text, load-template and push-root push one
\* node; append-children, replace, replace-placeholder, insert-after and
\* insert-before with the count m take the m top nodes off; assign-id,
\* hydrate-text, set-attribute, set-text, add-listener, remove-listener and
\* remove leave the stack as it is; no edit with a count above the depth
\* goes through, none takes fewer nodes than its count
C27_StackDepthPerEdit ==
    [][/\ dop'.kind \in PushKinds =>
             \E n \in NodeIds : dom'.stack = Append(dom.stack, n)
       /\ dop'.kind \in PopKinds =>
             /\ dop'.m <= Len(dom.stack)
             /\ dom'.stack = SubSeq(dom.stack, 1, Len(dom.stack) - dop'.m)
             /\ dop'.taken = SubSeq(dom.stack, Len(dom.stack) - dop'.m + 1, Len(dom.stack))
       /\ dop'.kind \in StackNeutralKinds => dom'.stack = dom.stack]_vars

\* two nodes taken off a stack of three, the root entry left
C27_Witness ==
    /\ dop.kind \in PopKinds
    /\ dop.m = 2
    /\ Len(dom.stack) = 1
    /\ Len(dop.taken) = 2

\* the facets a mask holds: the four flags as names, the attributes as
\* numbers; All stands for every attribute name
MaskFacets(mask) ==
    [flags |-> {f \in {"tag", "namespace", "text", "listeners"} :
                   \/ f = "tag" /\ mask.tag
                   \/ f = "namespace" /\ mask.namespace
                   \/ f = "text" /\ mask.text
                   \/ f = "listeners" /\ mask.listeners},
     attrs |-> IF mask.attritutes.kind = "All" THEN AttrNames ELSE Range(mask.attritutes.list)]

NoFacets == [flags |-> {}, attrs |-> {}]
FlagFacet(f) == [flags |-> {f}, attrs |-> {}]
AttrFacet(a) == [flags |-> {}, attrs |-> {a}]
FacetsUnion(x, y) == [flags |-> x.flags \cup y.flags, attrs |-> x.attrs \cup y.attrs]

\* the facets gathered for the node n and not yet reported
PendingFacets(d, n) ==
    IF n \in DOMAIN d.nodes_updated THEN MaskFacets(d.nodes_updated[n]) ELSE NoFacets

PayloadKinds ==
    {"SetAttribute", "SetText", "HydrateText", "NewEventListener", "RemoveEventListener"}

\* the node an edit of the payload works on
TargetOf(d, op) ==
    IF op.kind = "HydrateText" THEN load_child(d, op.path)[1]
    ELSE element_to_node_id(d, op.id)[1]

\* the facets an edit of the payload touches on the node it works on: the
\* attribute named or the listeners of an element, the text of a text node
\* as soon as its payload is borrowed, every facet of a node whose type is
\* set anew
TouchedFacets(d, op) ==
    LET ntype == d.data[TargetOf(d, op)].ntype
    IN IF op.kind = "HydrateText"
       THEN (IF ntype = "Text" THEN FlagFacet("text") ELSE MaskFacets(NodeMask_ALL))
       ELSE IF ntype = "Text" THEN FlagFacet("text")
       ELSE IF ntype = "Element" /\ op.kind = "SetAttribute" THEN AttrFacet(op.name)
       ELSE IF ntype = "Element" /\ op.kind \in {"NewEventListener", "RemoveEventListener"}
       THEN FlagFacet("listeners")
       ELSE NoFacets

\* C28: over any sequence of set-attribute, set-text, hydrate-text,
\* add-listener and remove-listener edits of one node between two calls of
\* update_state, the mask the next update_state reports for the node is the
\* union of the facets all of them touched: every edit adds the facets it
\* touches to those gathered before, none is erased, and update_state
\* reports what has been gathered
C28_MaskAccumulates ==
    [][/\ dop'.kind \in PayloadKinds =>
             \A n \in NodeIds :
                 PendingFacets(dom', n) =
                     FacetsUnion(PendingFacets(dom, n),
                                 IF n = TargetOf(dom, dop') THEN TouchedFacets(dom, dop')
                                 ELSE NoFacets)
       /\ dop'.kind = "update_state" =>
             /\ upd'.nodes_updated = dom.nodes_updated
             /\ dom'.nodes_updated = <<>>]_vars

\* update_state has reported an attribute and the listeners for one element
\* that two edits had touched since the update_state before
C28_Witness ==
    /\ dop.kind = "update_state"
    /\ \E n \in DOMAIN upd.nodes_updated :
          /\ n # RootId
          /\ MaskFacets(upd.nodes_updated[n]) = FacetsUnion(AttrFacet(1), FlagFacet("listeners"))

\* C30: once the node bound to an external id e is removed, and until an
\* edit binds e again, e does not resolve to another live node: a node made
\* by an edit is resolved by no external id but the one that edit binds,
\* also when it takes the slot of a node that was removed
C30_StaleIdNotResolved ==
    [][\A e \in ElementIds, n \in Live(dom') \ Live(dom) :
          e # dop'.id => dom'.node_id_mapping[e] # Some(n)]_vars

\* C4: whatever the order the passes are registered in, when update_state
\* changes the Q of a node, the pass P that reads the parent's Q is run on
\* every child of that node within the same call
C4_ParentDependantRecomputed ==
    [][dop'.kind = "update_state" =>
          \A n \in Live(dom) : <<"Q", n>> \in upd'.changed =>
              \A c \in Range(dom.tree[n].children) \cap Live(dom) : <<"P", c>> \in upd'.ran]_vars

\* C20: update_state schedules the pass P for the node n, at the current
\* height of n, if and only if n is still there and its change mask overlaps
\* the mask of P, or n is in the child-changed set and P is child-dependent,
\* or n is in the parent-changed set and P is parent-dependent, or n was
\* made since the last update_state; the entries of nodes that were removed
\* before the call are dropped and the call does not fail.
C20_ScheduledIff ==
    [][dop'.kind = "update_state" =>
          /\ dom'.ok
          /\ \A e \in upd'.dirty :
                \E p \in Range(dom.passes) : e[1] = p.this_type_id
          /\ \A p \in Range(dom.passes), n \in NodeIds, h \in 0..MaxNodes :
                (<<p.this_type_id, n, h>> \in upd'.dirty) <=>
                    /\ dom.tree[n].live
                    /\ h = dom.tree[n].height
                    /\ \/ /\ n \in DOMAIN dom.nodes_updated
                          /\ NodeMask_overlaps(dom.nodes_updated[n], p.mask)
                       \/ (n \in dom.child_changed_nodes /\ p.child_dependant)
                       \/ (n \in dom.parent_changed_nodes /\ p.parent_dependant)
                       \/ n \in created]_vars

\* an update_state that met a removed node in its sets, a node made since
\* the last update_state, and a node scheduled for one pass only
C20_Witness ==
    /\ dop.kind = "update_state"
    /\ upd.dropped # {}
    /\ \E e \in upd.dirty : e[2] # RootId /\ e[3] = 1 /\ e[1] = "Q"
    /\ \E e \in upd.dirty : e[2] = RootId /\ <<"Q", RootId, 0>> \notin upd.dirty

\* C5: after remove, or a replace that removes its anchor, neither the
\* removed node nor a node of its subtree is in the reverse index of any
\* event, and the query for the nodes listening to an event does not fail
C5_RemovedNotListening ==
    [][dop'.kind \in {"Remove", "ReplaceWith", "ReplacePlaceholder"} =>
          \A n \in Subtree(dom.tree, AnchorOf(dom, dop')) :
              /\ \A e \in DOMAIN dom'.nodes_listening : n \notin dom'.nodes_listening[e]
              /\ \A e \in Events : ~get_listening_sorted_panics(dom', e)]_vars

\* the nodes of the cached templates
TemplateNodes(d) ==
    UNION {UNION {Subtree(d.tree, r) : r \in Range(d.templates[name])} :
              name \in DOMAIN d.templates}

\* the change mask a node has gathered, None when it has none
MaskOn(d, n) == IF n \in DOMAIN d.nodes_updated THEN Some(d.nodes_updated[n]) ELSE None

\* the instances have no node in common with one another or with the templates
InstancesDisjoint ==
    \A i \in 1..Len(instances) :
        /\ instances[i].nodes \cap TemplateNodes(dom) = {}
        /\ \A j \in 1..Len(instances) : i # j => instances[i].nodes \cap instances[j].nodes = {}

\* an edit of the payload of a node of one instance leaves the payload and
\* the change mask of the nodes of the other instances and of the templates
PayloadEditIsLocal ==
    dop'.kind \in {"SetAttribute", "SetText", "NewEventListener"} =>
        \A i \in 1..Len(instances) :
            element_to_node_id(dom, dop'.id)[1] \in instances[i].nodes =>
                \A k \in TemplateNodes(dom) \cup
                         UNION {instances[j].nodes : j \in (1..Len(instances)) \ {i}} :
                    /\ dom'.data[k] = dom.data[k]
                    /\ MaskOn(dom', k) = MaskOn(dom, k)

\* C9: the instances loaded from a template root share no node with one
\* another or with the cached template, and set-attribute, set-text or
\* add-listener on a node of one instance changes neither the payload nor the
\* change mask of a node of another instance or of the template
C9_InstancesIndependent ==
    /\ []InstancesDisjoint
    /\ [][PayloadEditIsLocal]_vars

\* the first root has been loaded twice, both instances have gathered a
\* change mask, and the last edit has set an attribute of one of them
C9_Witness ==
    /\ dop.kind = "SetAttribute"
    /\ \E i, j \in 1..Len(instances) :
          /\ i # j
          /\ instances[i].index = 0
          /\ instances[j].index = 0
          /\ Cardinality(instances[i].nodes) = 2
          /\ Cardinality(instances[j].nodes) = 2
          /\ element_to_node_id(dom, dop.id)[1] \in instances[i].nodes
          /\ \E k \in instances[j].nodes : MaskOn(dom, k) # None

\* C21: an update_state call takes all that is pending: once it has returned
\* the change masks, the child-changed set, the parent-changed set and the
\* set of the nodes made are empty, and an update_state that follows with no
\* edit in between schedules no pass and returns an empty map of masks.
C21_UpdateConsumesAll ==
    [][dop'.kind = "update_state" =>
          /\ dom'.nodes_updated = <<>>
          /\ dom'.child_changed_nodes = {}
          /\ dom'.parent_changed_nodes = {}
          /\ dom'.nodes_created = {}
          /\ dirty_entries(dom') = {}
          /\ dop.kind = "update_state" => (upd'.dirty = {} /\ upd'.nodes_updated = <<>>)]_vars

\* an update_state that found nothing pending on a dom that edits have built
\* and an earlier update_state has resolved
C21_Witness ==
    /\ dop.kind = "update_state"
    /\ upd.dirty = {}
    /\ upd.nodes_updated = <<>>
    /\ upd.dropped = {}
    /\ Cardinality(Live(dom)) >= 3
    /\ \E n \in Live(dom) : dom.state[n] # NoState

\* the nodes the reverse index holds for an event
ListeningTo(d, event) ==
    IF event \in DOMAIN d.nodes_listening THEN d.nodes_listening[event] ELSE {}

\* C22: after any sequence of add-listener, remove-listener and structural
\* edits the query for the nodes listening to an event returns exactly the
\* nodes that are there and have a listener for the event, each once, the
\* deepest first; so it returns, and the nodes it sorts are these.
C22_ListeningExact ==
    \A e \in Events :
        /\ ~get_listening_sorted_panics(dom, e)
        /\ ListeningTo(dom, e) = {n \in Live(dom) : e \in dom.data[n].listeners}

\* the nodes that list n among their children
ParentsOf(t, n) == {p \in NodeIds : t[p].live /\ n \in Range(t[p].children)}

\* how often x stands in the sequence s
Occurrences(s, x) == Cardinality({i \in 1..Len(s) : s[i] = x})

\* C23: after any sequence of edits, a push-root of an attached node followed
\* by an append-children or insert that attaches it again included, the
\* attached nodes form one tree below the root: every attached node but the
\* root is in the child list of exactly one parent, once, there is no cycle,
\* the height of the root is 0 and that of a child one more than its parent's.
C23_OneTree ==
    LET t == dom.tree
    IN t[RootId].live =>
          /\ t[RootId].height = 0
          /\ ParentsOf(t, RootId) = {}
          /\ \A n \in Subtree(t, RootId) \ {RootId} :
                /\ Cardinality(ParentsOf(t, n)) = 1
                /\ \A p \in ParentsOf(t, n) :
                      /\ Occurrences(t[p].children, n) = 1
                      /\ t[n].parent = Some(p)
                      /\ t[n].height = t[p].height + 1

\* C24: once the store is constructed from a list of passes in any order,
\* for all distinct passes P and Q with Q among the passes P declares to
\* depend on, P is among the dependants of Q, wherever P stands in the list,
\* and no pass is a dependant of a pass it does not depend on.
C24_DependantsResolved ==
    \A i \in 1..Len(dom.passes), j \in 1..Len(dom.passes) :
        i # j =>
            LET P == dom.passes[i]
                Q == dom.passes[j]
            IN (Q.this_type_id \in P.combined_dependancy_type_ids)
                    <=> (P.this_type_id \in Q.dependants)

====
